---- MODULE Spec2Model ----
(***************************************************************************)
(* The HiveSpeak evaluator (compiler/evaluator.py) driven by the REPL host *)
(* (compiler/htc.py).  AST nodes are the parser's tagged tuples             *)
(* <<type, value, loc>>; runtime values are tagged tuples <<type, ...>>;    *)
(* a Python dict is a sequence of <<key, value>> pairs in insertion order;  *)
(* environment frames live in a heap (st.frames) and are named by index;   *)
(* dict values live in a second heap (st.heap) and are named <<"DICT", i>>, *)
(* so that two names can hold the same dict; <<"MAP", pairs>> is a dict     *)
(* written out by value.  st.packets is the module-level _PACKET_STORE;    *)
(* st.digests lists the byte strings hashed so far (the n-th has digest     *)
(* "h<n>"); st.log records every inbox append and pop in the order made.    *)
(* Every evaluation returns [ok, v, st]: ok with a value, or an exception  *)
(* tuple in v, and the store the evaluation left behind.                   *)
(***************************************************************************)
EXTENDS Integers, Sequences, FiniteSets, TLC

VARIABLES scn, store, last, ninputs

vars == <<scn, store, last, ninputs>>

\* ---- bounds ----
MaxInputs == 3
MaxIter == 6
MaxN == 4

MaxLen == 2

MaxToks == 4

\* ---- results of an evaluation ----
Ok(v, st) == [ok |-> TRUE, v |-> v, st |-> st]

Raise(e, st) == [ok |-> FALSE, v |-> e, st |-> st]

\* K applied to the value of e, with e evaluated exactly once.
With(e, K(_)) == CHOOSE y \in {K(x) : x \in {e}} : TRUE

\* An exception: its class, its argument, and the source location its message
\* carries (no raise site of the evaluator puts a line or column in a message).
Exc(class, arg) == [exc |-> class, arg |-> arg, loc |-> <<>>]

\* ---- runtime values ----
None == <<"NULL">>

IntV(i) == <<"INT", i>>

BoolV(b) == <<"BOOL", b>>

StrV(s) == <<"STR", s>>

IsNum(v) == v[1] \in {"INT", "BOOL", "FLOAT"}

NumOf(v) == IF v[1] = "BOOL" THEN (IF v[2] THEN 1 ELSE 0) ELSE v[2]

RECURSIVE PyEq(_, _)
PyEq(a, b) ==
    IF IsNum(a) /\ IsNum(b) THEN NumOf(a) = NumOf(b)
    ELSE IF a[1] # b[1] THEN FALSE
    ELSE IF a[1] = "LIST" THEN
        /\ Len(a[2]) = Len(b[2])
        /\ \A i \in 1..Len(a[2]) : PyEq(a[2][i], b[2][i])
    ELSE IF a[1] = "MAP" THEN
        /\ Len(a[2]) = Len(b[2])
        /\ \A i \in 1..Len(a[2]) : \E j \in 1..Len(b[2]) :
              PyEq(a[2][i][1], b[2][j][1]) /\ PyEq(a[2][i][2], b[2][j][2])
    ELSE a = b

\* ---- Python dicts: insertion-ordered <<key, value>> pairs ----
DictHas(d, k) == \E i \in 1..Len(d) : PyEq(d[i][1], k)

DictIdx(d, k) == CHOOSE i \in 1..Len(d) : PyEq(d[i][1], k)

DictGet(d, k) == d[DictIdx(d, k)][2]

DictSet(d, k, v) ==
    IF DictHas(d, k)
    THEN [i \in 1..Len(d) |-> IF i = DictIdx(d, k) THEN <<d[i][1], v>> ELSE d[i]]
    ELSE Append(d, <<k, v>>)

\* ---- dict objects ----
\* A new dict object holding the pairs d; NewRef(st) names it.
Alloc(d, st) == [st EXCEPT !.heap = Append(@, d)]

NewRef(st) == <<"DICT", Len(st.heap) + 1>>

Heap(st, r) == st.heap[r[2]]

\* The value v with every dict it reaches written out by value.
RECURSIVE Freeze(_, _)
Freeze(v, st) ==
    IF v[1] = "DICT" THEN
        <<"MAP", [i \in 1..Len(Heap(st, v)) |->
                    <<Heap(st, v)[i][1], Freeze(Heap(st, v)[i][2], st)>>]>>
    ELSE IF v[1] = "LIST" THEN <<"LIST", [i \in 1..Len(v[2]) |-> Freeze(v[2][i], st)]>>
    ELSE v

\* a == b on runtime values: dicts and lists compare by content.
ValEq(a, b, st) == PyEq(Freeze(a, st), Freeze(b, st))

\* A by-value datum made into a runtime value: every dict in it becomes a new
\* dict object.
RECURSIVE Intern(_, _), InternList(_, _, _, _), InternPairs(_, _, _, _)
Intern(v, st) ==
    IF v[1] = "MAP" THEN
        LET r == InternPairs(v[2], 1, <<>>, st)
        IN  [v |-> NewRef(r.st), st |-> Alloc(r.v, r.st)]
    ELSE IF v[1] = "LIST" THEN
        LET r == InternList(v[2], 1, <<>>, st) IN [v |-> <<"LIST", r.v>>, st |-> r.st]
    ELSE [v |-> v, st |-> st]

InternList(els, i, acc, st) ==
    IF i > Len(els) THEN [v |-> acc, st |-> st]
    ELSE LET r == Intern(els[i], st) IN InternList(els, i + 1, Append(acc, r.v), r.st)

InternPairs(d, i, acc, st) ==
    IF i > Len(d) THEN [v |-> acc, st |-> st]
    ELSE LET r == Intern(d[i][2], st)
         IN  InternPairs(d, i + 1, Append(acc, <<d[i][1], r.v>>), r.st)

\* ---- AST constructors ----
n_int(v, loc) == <<"INT", v, loc>>

n_str(v, loc) == <<"STR", v, loc>>

n_bool(v, loc) == <<"BOOL", v, loc>>

n_null(loc) == <<"NULL", None, loc>>

n_sym(v, loc) == <<"SYM", v, loc>>

n_kw(v, loc) == <<"KW", v, loc>>

n_list(v, loc) == <<"LIST", v, loc>>

n_sexpr(v, loc) == <<"SEXPR", v, loc>>

n_float(v, loc) == <<"FLOAT", v, loc>>

n_hash(v, loc) == <<"HASH", v, loc>>

n_map(v, loc) == <<"MAP", v, loc>>

n_quote(v, loc) == <<"QUOTE", v, loc>>

n_unquote(v, loc) == <<"UNQUOTE", v, loc>>

n_splice(v, loc) == <<"SPLICE", v, loc>>

\* ---- parser ----
\* A token is <<type, value, line, col>>; positions count from 1 here, from 0
\* in the source.  A read at a position past the last token is Python's
\* IndexError.
_tok_type(tokens, pos) == tokens[pos][1]

_tok_val(tokens, pos) == tokens[pos][2]

_tok_loc(tokens, pos) == <<tokens[pos][3], tokens[pos][4]>>

\* SyntaxError(f"{msg} at line {line}, col {col}"): the line and column are
\* kept as the exception's loc.
_err(msg, tokens, pos) == [exc |-> "SyntaxError", arg |-> msg, loc |-> _tok_loc(tokens, pos)]

_ATOM_MAP == {"INT", "FLOAT", "STRING", "BOOL", "NULL", "SYM", "KW", "HASH"}

Atom(tt, v, loc) ==
    CASE tt = "INT" -> n_int(v, loc)
      [] tt = "FLOAT" -> n_float(v, loc)
      [] tt = "STRING" -> n_str(v, loc)
      [] tt = "BOOL" -> n_bool(v, loc)
      [] tt = "NULL" -> n_null(loc)
      [] tt = "SYM" -> n_sym(v, loc)
      [] tt = "KW" -> n_kw(v, loc)
      [] tt = "HASH" -> n_hash(v, loc)

\* f"{tt}({value})" for the tokens no expression starts with: the closing
\* delimiters and the end-of-input token, whose value is None.
TokText(tokens, pos) ==
    _tok_type(tokens, pos) \o "("
        \o (IF _tok_type(tokens, pos) = "EOF" THEN "None" ELSE _tok_val(tokens, pos)) \o ")"

Parsed(node, pos) == [ok |-> TRUE, v |-> node, pos |-> pos]

ParseFail(e) == [ok |-> FALSE, v |-> e, pos |-> 0]

IndexError == [exc |-> "IndexError", arg |-> "list index out of range", loc |-> <<>>]

RECURSIVE _parse_expr(_, _)
RECURSIVE ParseUntil(_, _, _, _)
RECURSIVE ParseUntil_no_eof_test(_, _, _, _)

\* The loop without its test for the end of input.
ParseUntil_no_eof_test(tokens, pos, end_token, elements) ==
    IF pos > Len(tokens) THEN ParseFail(IndexError)
    ELSE IF _tok_type(tokens, pos) = end_token THEN Parsed(elements, pos)
    ELSE LET r == _parse_expr(tokens, pos) IN
         IF ~r.ok THEN r
         ELSE ParseUntil_no_eof_test(tokens, r.pos, end_token, Append(elements, r.v))

\* The loop of _parse_delimited: the elements up to the token end_token.
ParseUntil(tokens, pos, end_token, elements) ==
    IF pos > Len(tokens) THEN ParseFail(IndexError)
    ELSE IF _tok_type(tokens, pos) = end_token THEN Parsed(elements, pos)
    ELSE IF _tok_type(tokens, pos) = "EOF"
    THEN ParseFail(_err("Expected " \o end_token \o ", got EOF", tokens, pos))
    ELSE LET r == _parse_expr(tokens, pos) IN
         IF ~r.ok THEN r
         ELSE ParseUntil(tokens, r.pos, end_token, Append(elements, r.v))

\* wrapper_fn is the node type the constructor tags the elements with.
_parse_delimited(tokens, pos, end_token, wrapper_fn, loc) ==
    LET r == ParseUntil(tokens, pos, end_token, <<>>)
    IN  IF ~r.ok THEN r ELSE Parsed(<<wrapper_fn, r.v, loc>>, r.pos + 1)

_parse_expr(tokens, pos) ==
    IF pos > Len(tokens) THEN ParseFail(IndexError)
    ELSE
    LET tt == _tok_type(tokens, pos)
        loc == _tok_loc(tokens, pos)
        inner == _parse_expr(tokens, pos + 1)
    IN  CASE tt \in _ATOM_MAP -> Parsed(Atom(tt, _tok_val(tokens, pos), loc), pos + 1)
          [] tt = "LPAREN" -> _parse_delimited(tokens, pos + 1, "RPAREN", "SEXPR", loc)
          [] tt = "LBRACK" -> _parse_delimited(tokens, pos + 1, "RBRACK", "LIST", loc)
          [] tt = "LBRACE" -> _parse_delimited(tokens, pos + 1, "RBRACE", "MAP", loc)
          [] tt = "QUOTE" -> IF inner.ok THEN Parsed(n_quote(inner.v, loc), inner.pos) ELSE inner
          [] tt = "UNQUOTE" -> IF inner.ok THEN Parsed(n_unquote(inner.v, loc), inner.pos) ELSE inner
          [] tt = "SPLICE" -> IF inner.ok THEN Parsed(n_splice(inner.v, loc), inner.pos) ELSE inner
          [] tt = "PIPE" -> Parsed(n_sym("|>", loc), pos + 1)
          [] OTHER -> ParseFail(_err("Unexpected token " \o TokText(tokens, pos), tokens, pos))

\* The loop of parse: the top-level nodes from pos on.
RECURSIVE ParseLoop(_, _, _)
ParseLoop(tokens, pos, nodes) ==
    IF pos > Len(tokens) THEN ParseFail(IndexError)
    ELSE IF _tok_type(tokens, pos) = "EOF" THEN Parsed(nodes, pos)
    ELSE LET r == _parse_expr(tokens, pos) IN
         IF ~r.ok THEN r ELSE ParseLoop(tokens, r.pos, Append(nodes, r.v))

\* The nodes parse returns, with the position its loop stopped at.
parse(tokens) == ParseLoop(tokens, 1, <<>>)

node_type(n) == n[1]

\* ---- Environment ----
Env(st, env) == st.frames[env].b

make_env(parent, bindings, st) ==
    [st EXCEPT !.frames = Append(@, [parent |-> parent, b |-> bindings])]

NewEnv(st) == Len(st.frames) + 1

RECURSIVE env_get(_, _, _)
env_get(env, name, st) ==
    IF DictHas(Env(st, env), StrV(name)) /\ name # "__parent__"
    THEN Ok(DictGet(Env(st, env), StrV(name)), st)
    ELSE IF st.frames[env].parent # 0
    THEN env_get(st.frames[env].parent, name, st)
    ELSE Raise(Exc("NameError", name), st)

RECURSIVE env_find(_, _, _)
env_find(env, name, st) ==
    IF DictHas(Env(st, env), StrV(name)) /\ name # "__parent__" THEN env
    ELSE IF st.frames[env].parent # 0 THEN env_find(st.frames[env].parent, name, st)
    ELSE 0

\* env_set storing into the nearest frame that already binds the name.
env_set_found(env, name, value, st) ==
    LET e == IF env_find(env, name, st) # 0 THEN env_find(env, name, st) ELSE env
    IN  [st EXCEPT !.frames[e].b = DictSet(@, StrV(name), value)]

env_set(env, name, value, st) ==
    [st EXCEPT !.frames[env].b = DictSet(@, StrV(name), value)]


\* ---- str() and the content hash ----
\* repr(v) of a value written out by value.  A FLOAT holds an integral float.
RECURSIVE PyRepr(_), PyReprJoin(_, _), PyReprItems(_, _)
PyRepr(v) ==
    CASE v[1] = "NULL" -> "None"
      [] v[1] = "BOOL" -> IF v[2] THEN "True" ELSE "False"
      [] v[1] = "INT" -> ToString(v[2])
      [] v[1] = "FLOAT" -> ToString(v[2]) \o ".0"
      [] v[1] = "STR" -> "'" \o v[2] \o "'"
      [] v[1] \in {"KW", "HASH", "SYM"} -> "('" \o v[1] \o "', '" \o v[2] \o "')"
      [] v[1] = "LIST" -> "[" \o PyReprJoin(v[2], 1) \o "]"
      [] v[1] = "MAP" -> "{" \o PyReprItems(v[2], 1) \o "}"

PyReprJoin(els, i) ==
    IF i > Len(els) THEN ""
    ELSE PyRepr(els[i]) \o (IF i < Len(els) THEN ", " ELSE "") \o PyReprJoin(els, i + 1)

PyReprItems(d, i) ==
    IF i > Len(d) THEN ""
    ELSE PyRepr(d[i][1]) \o ": " \o PyRepr(d[i][2])
         \o (IF i < Len(d) THEN ", " ELSE "") \o PyReprItems(d, i + 1)

\* str(v): a string is itself, every other value its repr.
PyStr(v) == IF v[1] = "STR" THEN v[2] ELSE PyRepr(v)

\* json.dumps of a string without characters to escape.
json_dumps(s) == "\"" \o s \o "\""

\* hashlib.sha256(b).hexdigest()[:12]: the digest is a function of the bytes,
\* taken to be one-to-one.  st.digests lists the byte strings digested so far;
\* the digest of the n-th of them is written "h<n>".
DigestIdx(s, st) ==
    IF \E i \in 1..Len(st.digests) : st.digests[i] = s
    THEN CHOOSE i \in 1..Len(st.digests) : st.digests[i] = s
    ELSE Len(st.digests) + 1

sha256_12(s, st) ==
    [v |-> "h" \o ToString(DigestIdx(s, st)),
     st |-> IF DigestIdx(s, st) > Len(st.digests)
            THEN [st EXCEPT !.digests = Append(@, s)] ELSE st]

\* hashlib.sha256(json.dumps(str(v)).encode()).hexdigest()[:12]
content_hash(v, st) == sha256_12(json_dumps(PyStr(Freeze(v, st))), st)

\* ---- Built-in functions ----
_truthy(v) ==
    IF v[1] = "NULL" THEN FALSE
    ELSE IF v[1] = "BOOL" THEN v[2]
    ELSE IF v[1] \in {"INT", "FLOAT"} THEN v[2] # 0
    ELSE IF v[1] = "STR" THEN v[2] # ""
    ELSE IF v[1] \in {"LIST", "MAP"} THEN Len(v[2]) # 0
    ELSE TRUE

ArithOp(op, a, b) ==
    CASE op = "+" -> a + b
      [] op = "-" -> a - b
      [] op = "*" -> a * b

RECURSIVE ArithFold(_, _, _, _)
ArithFold(op, result, args, i) ==
    IF i > Len(args) THEN result
    ELSE ArithFold(op, ArithOp(op, result, NumOf(args[i])), args, i + 1)

\* _arith(op, identity): the variadic handler.  Operands are numbers (bool counts
\* as int); an operand of another type ends in the host's TypeError.
_arith(op, identity, args, st) ==
    IF Len(args) = 0 THEN Raise(Exc("IndexError", "tuple index out of range"), st)
    ELSE IF \E i \in 1..Len(args) : ~IsNum(args[i]) THEN Raise(Exc("TypeError", op), st)
    ELSE IF Len(args) = 1 THEN Ok(IntV(ArithOp(op, identity, NumOf(args[1]))), st)
    ELSE Ok(IntV(ArithFold(op, NumOf(args[1]), args, 2)), st)

\* _cmp(op): the binary handler.
_cmp(op, args, st) ==
    IF Len(args) # 2 THEN Raise(Exc("TypeError", op), st)
    ELSE IF op = "=" THEN Ok(BoolV(ValEq(args[1], args[2], st)), st)
    ELSE IF op = "!=" THEN Ok(BoolV(~ValEq(args[1], args[2], st)), st)
    ELSE IF ~(IsNum(args[1]) /\ IsNum(args[2])) THEN Raise(Exc("TypeError", op), st)
    ELSE IF op = "<" THEN Ok(BoolV(NumOf(args[1]) < NumOf(args[2])), st)
    ELSE IF op = ">" THEN Ok(BoolV(NumOf(args[1]) > NumOf(args[2])), st)
    ELSE IF op = "<=" THEN Ok(BoolV(NumOf(args[1]) <= NumOf(args[2])), st)
    ELSE Ok(BoolV(NumOf(args[1]) >= NumOf(args[2])), st)

\* The names of the built-in table the inputs use.
_BUILTINS ==
    <<"+", "-", "*", "=", "!=", "<", ">", "<=", ">=", "not", "get", "get-state", "set-state">>

\* k[1] if isinstance(k, tuple) and k[0] == "KW" else k
KeyOf(k) == IF k[1] = "KW" THEN StrV(k[2]) ELSE k

\* "get": lambda m, k: m.get(key)
BuiltinGet(args, st) ==
    IF Len(args) # 2 THEN Raise(Exc("TypeError", "get"), st)
    ELSE IF args[1][1] # "DICT" THEN Raise(Exc("AttributeError", "get"), st)
    ELSE IF args[2][1] \in {"LIST", "DICT"} THEN Raise(Exc("TypeError", "unhashable type"), st)
    ELSE IF DictHas(st.heap[args[1][2]], KeyOf(args[2]))
    THEN Ok(DictGet(st.heap[args[1][2]], KeyOf(args[2])), st)
    ELSE Ok(None, st)

\* "get-state": lambda c: c.get("state") if isinstance(c, dict) else None
BuiltinGetState(args, st) ==
    IF Len(args) # 1 THEN Raise(Exc("TypeError", "get-state"), st)
    ELSE IF args[1][1] = "DICT" /\ DictHas(st.heap[args[1][2]], StrV("state"))
    THEN Ok(DictGet(st.heap[args[1][2]], StrV("state")), st)
    ELSE Ok(None, st)

\* "set-state": lambda c, k, v: (c["state"].update({key: v}), c["state"])[-1]
\* The dict object under c["state"] is updated in place.
BuiltinSetState(args, st) ==
    IF Len(args) # 3 THEN Raise(Exc("TypeError", "set-state"), st)
    ELSE IF args[1][1] # "DICT" THEN Raise(Exc("TypeError", "not subscriptable"), st)
    ELSE IF ~DictHas(st.heap[args[1][2]], StrV("state")) THEN Raise(Exc("KeyError", "state"), st)
    ELSE LET state == DictGet(st.heap[args[1][2]], StrV("state")) IN
         IF state[1] # "DICT" THEN Raise(Exc("AttributeError", "update"), st)
         ELSE IF args[2][1] \in {"LIST", "DICT"}
         THEN Raise(Exc("TypeError", "unhashable type"), st)
         ELSE Ok(state, [st EXCEPT !.heap[state[2]] = DictSet(@, KeyOf(args[2]), args[3])])

ApplyBuiltin(name, args, st) ==
    CASE name = "+" -> _arith("+", 0, args, st)
      [] name = "-" -> _arith("-", 0, args, st)
      [] name = "*" -> _arith("*", 1, args, st)
      [] name \in {"=", "!=", "<", ">", "<=", ">="} -> _cmp(name, args, st)
      [] name = "get" -> BuiltinGet(args, st)
      [] name = "get-state" -> BuiltinGetState(args, st)
      [] name = "set-state" -> BuiltinSetState(args, st)
      [] name = "not" ->
            IF Len(args) # 1 THEN Raise(Exc("TypeError", name), st)
            ELSE Ok(BoolV(~_truthy(Freeze(args[1], st))), st)

default_env ==
    [i \in 1..Len(_BUILTINS) |-> <<StrV(_BUILTINS[i]), <<"BUILTIN", _BUILTINS[i]>>>>]
    \o << <<StrV("T"), BoolV(TRUE)>>, <<StrV("F"), BoolV(FALSE)>>, <<StrV("N"), None>> >>

\* ---- AST -> data (quote) ----
RECURSIVE _ast_to_data(_), AstToDataMap(_, _, _)
_ast_to_data(node) ==
    LET nt == node_type(node) IN
    CASE nt \in {"INT", "FLOAT", "STR", "BOOL"} -> <<nt, node[2]>>
      [] nt = "NULL" -> None
      [] nt \in {"SYM", "KW", "HASH"} -> <<nt, node[2]>>
      [] nt \in {"LIST", "SEXPR"} ->
            <<"LIST", [i \in 1..Len(node[2]) |-> _ast_to_data(node[2][i])]>>
      [] nt = "MAP" -> <<"MAP", AstToDataMap(node[2], 1, <<>>)>>
      [] nt = "QUOTE" -> <<"LIST", <<StrV("quote"), _ast_to_data(node[2])>>>>
      [] nt = "UNQUOTE" -> <<"LIST", <<StrV("unquote"), _ast_to_data(node[2])>>>>
      [] nt = "SPLICE" -> <<"LIST", <<StrV("splice"), _ast_to_data(node[2])>>>>

AstToDataMap(els, i, result) ==
    IF ~(i < Len(els)) THEN result
    ELSE LET k == _ast_to_data(els[i])
             v == _ast_to_data(els[i + 1])
             key == IF k[1] = "KW" THEN StrV(k[2]) ELSE k
         IN  AstToDataMap(els, i + 2, DictSet(result, key, v))

\* el.startswith(":") for the strings of at most one character after the colon
\* that the inputs use.
StrTails == {"", "a", "b", "x", "k"}

startswith(s, prefix) == \E t \in StrTails : s = prefix \o t

\* _data_to_ast on data written out by value.  The nodes it builds carry no
\* location; Null is the one-element node ("NULL",).
RECURSIVE _data_to_ast(_), DataToAstMap(_)
DataToAstMap(d) ==
    IF d = <<>> THEN <<>>
    ELSE << IF d[1][1][1] = "STR" THEN <<"KW", d[1][1][2]>> ELSE _data_to_ast(d[1][1]),
            _data_to_ast(d[1][2]) >> \o DataToAstMap(Tail(d))

_data_to_ast(data) ==
    CASE data[1] = "NULL" -> <<"NULL">>
      [] data[1] \in {"BOOL", "INT", "FLOAT", "STR", "SYM", "KW", "HASH"} -> <<data[1], data[2]>>
      [] data[1] = "LIST" ->
            LET els == data[2] IN
            IF els # <<>> /\ els[1][1] = "SYM"
            THEN <<"SEXPR", [i \in 1..Len(els) |-> _data_to_ast(els[i])]>>
            ELSE IF els # <<>> /\ els[1][1] = "STR"
            THEN <<"SEXPR", [i \in 1..Len(els) |->
                     _data_to_ast(IF els[i][1] = "STR" /\ ~startswith(els[i][2], ":")
                                  THEN <<"SYM", els[i][2]>> ELSE els[i])]>>
            ELSE <<"LIST", [i \in 1..Len(els) |-> _data_to_ast(els[i])]>>
      [] data[1] = "MAP" -> <<"MAP", DataToAstMap(data[2])>>
      [] OTHER -> <<"STR", PyStr(data)>>


\* The table without the hive primitives and the intents.
_SPECIAL_FORMS_core ==
    {"def", "let", "fn", "if", "do", "match", "loop", "recur", "quote", "eval",
     "macro", "try", "catch", "throw", "|>", "mod", "use"}

\* ---- Special form registry ----
_SPECIAL_FORMS ==
    {"def", "let", "fn", "if", "do", "match", "loop", "recur", "quote", "eval",
     "macro", "try", "catch", "throw", "|>", "mod", "use", "cell", "emit", "recv",
     "merge", "compress", "ref", "packet", "assert!", "ask?", "request!",
     "suggest~", "accept+", "reject-"}

Hashable(v) == v[1] \notin {"LIST", "MAP", "DICT", "FN", "MACRO"}

\* ---- Eval dispatch ----
RECURSIVE evaluate(_, _, _), eval_list(_, _, _), eval_body(_, _, _),
          eval_map(_, _, _, _, _), _eval_sexpr(_, _, _), apply_fn(_, _, _, _),
          special_form(_, _, _, _)

evaluate(node, env, st) ==
    With([st EXCEPT !.depth = @ + 1], LAMBDA st1 :
    LET nt == node_type(node)
        r == CASE nt \in {"INT", "FLOAT", "STR", "BOOL"} -> Ok(<<nt, node[2]>>, st1)
               [] nt = "NULL" -> Ok(None, st1)
               [] nt = "SYM" -> env_get(env, node[2], st1)
               [] nt \in {"KW", "HASH"} -> Ok(<<nt, node[2]>>, st1)
               [] nt = "LIST" ->
                     LET e == eval_list(node[2], env, st1)
                     IN  IF e.ok THEN Ok(<<"LIST", e.v>>, e.st) ELSE e
               [] nt = "MAP" -> eval_map(node[2], 1, <<>>, env, st1)
               [] nt = "QUOTE" ->
                     LET d == Intern(_ast_to_data(node[2]), st1) IN Ok(d.v, d.st)
               [] nt = "SEXPR" -> _eval_sexpr(node[2], env, st1)
               [] OTHER -> Raise(Exc("RuntimeError", "Cannot evaluate node type"), st1)
    IN  [r EXCEPT !.st.depth = st.depth])

RECURSIVE eval_list_right_first(_, _, _)
\* The elements evaluated from the last to the first.
eval_list_right_first(nodes, env, st) ==
    IF Len(nodes) = 0 THEN Ok(<<>>, st)
    ELSE LET t == eval_list_right_first(Tail(nodes), env, st) IN
         IF ~t.ok THEN t
         ELSE LET h == evaluate(Head(nodes), env, t.st) IN
              IF ~h.ok THEN h ELSE Ok(<<h.v>> \o t.v, h.st)

\* [evaluate(el, env) for el in nodes]: left to right, stopping at the first failure.
eval_list(nodes, env, st) ==
    IF Len(nodes) = 0 THEN Ok(<<>>, st)
    ELSE LET h == evaluate(Head(nodes), env, st) IN
         IF ~h.ok THEN h
         ELSE LET t == eval_list(Tail(nodes), env, h.st) IN
              IF ~t.ok THEN t ELSE Ok(<<h.v>> \o t.v, t.st)

\* result = None; for node in nodes: result = evaluate(node, env); return result
eval_body(nodes, env, st) ==
    IF Len(nodes) = 0 THEN Ok(None, st)
    ELSE LET h == evaluate(Head(nodes), env, st) IN
         IF ~h.ok \/ Len(nodes) = 1 THEN h
         ELSE eval_body(Tail(nodes), env, h.st)

\* The MAP branch of evaluate: alternating key/value pairs.
eval_map(elements, i, result, env, st) ==
    IF ~(i < Len(elements)) THEN Ok(NewRef(st), Alloc(result, st))
    ELSE LET k == evaluate(elements[i], env, st) IN
         IF ~k.ok THEN k
         ELSE LET v == evaluate(elements[i + 1], env, k.st) IN
              IF ~v.ok THEN v
              ELSE LET key == IF k.v[1] = "KW" THEN StrV(k.v[2]) ELSE k.v IN
                   IF ~Hashable(key) THEN Raise(Exc("TypeError", "unhashable type"), v.st)
                   ELSE With(DictSet(result, key, v.v),
                             LAMBDA d : eval_map(elements, i + 2, d, env, v.st))

\* _eval_sexpr rejecting a macro head before any argument is evaluated.
_eval_sexpr_reject_first(elements, env, st) ==
    IF Len(elements) = 0 THEN Ok(None, st)
    ELSE LET head == elements[1]
             args == Tail(elements)
         IN  IF node_type(head) = "SYM" /\ head[2] \in _SPECIAL_FORMS
             THEN special_form(head[2], args, env, st)
             ELSE LET f == evaluate(head, env, st) IN
                  IF ~f.ok THEN f
                  ELSE IF f.v[1] = "MACRO" THEN apply_fn(f.v, <<>>, env, f.st)
                  ELSE LET a == eval_list(args, env, f.st) IN
                       IF ~a.ok THEN a
                       ELSE apply_fn(f.v, a.v, env, a.st)

_eval_sexpr(elements, env, st) ==
    IF Len(elements) = 0 THEN Ok(None, st)
    ELSE LET head == elements[1]
             args == Tail(elements)
         IN  IF node_type(head) = "SYM" /\ head[2] \in _SPECIAL_FORMS
             THEN special_form(head[2], args, env, st)
             ELSE LET f == evaluate(head, env, st) IN
                  IF ~f.ok THEN f
                  ELSE LET a == eval_list(args, env, f.st) IN
                       IF ~a.ok THEN a
                       ELSE apply_fn(f.v, a.v, env, a.st)

\* Binding with the rest name bound to every argument of the call.
RECURSIVE _bind_params_rest_all(_, _, _, _, _)
_bind_params_rest_all(params, args, i, env, st) ==
    IF i > Len(params) THEN st
    ELSE IF params[i] = "&" THEN
        IF i + 1 <= Len(params)
        THEN env_set(env, params[i + 1], <<"LIST", args>>, st)
        ELSE st
    ELSE With(env_set(env, params[i], IF i <= Len(args) THEN args[i] ELSE None, st),
              LAMBDA s : _bind_params_rest_all(params, args, i + 1, env, s))

RECURSIVE _bind_params(_, _, _, _, _)
_bind_params(params, args, i, env, st) ==
    IF i > Len(params) THEN st
    ELSE IF params[i] = "&" THEN
        IF i + 1 <= Len(params)
        THEN env_set(env, params[i + 1], <<"LIST", SubSeq(args, i, Len(args))>>, st)
        ELSE st
    ELSE With(env_set(env, params[i], IF i <= Len(args) THEN args[i] ELSE None, st),
              LAMBDA s : _bind_params(params, args, i + 1, env, s))

\* apply_fn with the new frame made over the caller's frame (dynamic scoping).
apply_fn_caller_env(fn_val, args, env, st) ==
    IF fn_val[1] = "BUILTIN" THEN ApplyBuiltin(fn_val[2], args, st)
    ELSE IF fn_val[1] = "FN" THEN
        LET fn_env == NewEnv(st)
        IN  With(_bind_params(fn_val[2], args, 1, fn_env, make_env(env, <<>>, st)),
                 LAMBDA s : eval_body(fn_val[3], fn_env, s))
    ELSE Raise(Exc("RuntimeError", "Not callable"), st)

apply_fn(fn_val, args, env, st) ==
    IF fn_val[1] = "BUILTIN" THEN ApplyBuiltin(fn_val[2], args, st)
    ELSE IF fn_val[1] = "FN" THEN
        LET params == fn_val[2]
            body_nodes == fn_val[3]
            closure_env == fn_val[4]
            fn_env == NewEnv(st)
        IN  With(_bind_params(params, args, 1, fn_env, make_env(closure_env, <<>>, st)),
                 LAMBDA s : eval_body(body_nodes, fn_env, s))
    ELSE IF fn_val[1] = "MACRO" THEN
        Raise(Exc("RuntimeError", "Macros cannot be applied as values"), st)
    ELSE Raise(Exc("RuntimeError", "Not callable"), st)


\* ---- Special forms ----
Names(nodes) == [i \in 1..Len(nodes) |-> nodes[i][2]]

_sf_def(args, env, st) ==
    IF node_type(args[1]) = "SEXPR" THEN
        LET parts == args[1][2]
            name == parts[1][2]
            params == Names(Tail(parts))
            body == Tail(args)
            fn_val == <<"FN", params, body, env>>
        IN  Ok(fn_val, env_set(env, name, fn_val, st))
    ELSE
        LET name == args[1][2]
            value == evaluate(args[2], env, st)
        IN  IF ~value.ok THEN value
            ELSE Ok(value.v, env_set(env, name, value.v, value.st))

\* The binding loop of _sf_let: evaluate pairs[i+1] in let_env, then bind pairs[i].
RECURSIVE LetBind(_, _, _, _)
LetBind(pairs, i, let_env, st) ==
    IF ~(i < Len(pairs)) THEN Ok(None, st)
    ELSE LET name == pairs[i][2]
             val == evaluate(pairs[i + 1], let_env, st)
         IN  IF ~val.ok THEN val
             ELSE With(env_set(let_env, name, val.v, val.st),
                       LAMBDA s : LetBind(pairs, i + 2, let_env, s))

\* _sf_let with every initializer evaluated in the enclosing frame (parallel let).
RECURSIVE LetBindOuter(_, _, _, _, _)
LetBindOuter(pairs, i, env, let_env, st) ==
    IF ~(i < Len(pairs)) THEN Ok(None, st)
    ELSE LET val == evaluate(pairs[i + 1], env, st)
         IN  IF ~val.ok THEN val
             ELSE With(env_set(let_env, pairs[i][2], val.v, val.st),
                       LAMBDA s : LetBindOuter(pairs, i + 2, env, let_env, s))

_sf_let_parallel(args, env, st) ==
    With(make_env(env, <<>>, st), LAMBDA s :
        LET b == LetBindOuter(args[1][2], 1, env, NewEnv(st), s)
        IN  IF ~b.ok THEN b ELSE eval_body(Tail(args), NewEnv(st), b.st))

_sf_let(args, env, st) ==
    LET bindings_node == args[1]
        body == Tail(args)
        let_env == NewEnv(st)
    IN  With(make_env(env, <<>>, st), LAMBDA s :
        LET b == LetBind(bindings_node[2], 1, let_env, s)
        IN  IF ~b.ok THEN b ELSE eval_body(body, let_env, b.st))

_sf_fn(args, env, st) ==
    LET params_node == args[1]
    IN  Ok(<<"FN", Names(params_node[2]), Tail(args), env>>, st)

_sf_if(args, env, st) ==
    LET cond == evaluate(args[1], env, st) IN
    IF ~cond.ok THEN cond
    ELSE IF _truthy(Freeze(cond.v, cond.st)) THEN evaluate(args[2], env, cond.st)
    ELSE IF Len(args) > 2 THEN evaluate(args[3], env, cond.st)
    ELSE Ok(None, cond.st)

_sf_do(args, env, st) == eval_body(args, env, st)

_match_pattern(pat, val, env, st) ==
    IF node_type(pat) = "SYM" /\ pat[2] = "_" THEN Ok(TRUE, st)
    ELSE LET pat_val == evaluate(pat, env, st) IN
         IF ~pat_val.ok THEN pat_val
         ELSE Ok(ValEq(pat_val.v, val, pat_val.st), pat_val.st)

\* The pair loop evaluating the result of every pair it visits.
RECURSIVE MatchPairs_every(_, _, _, _, _)
MatchPairs_every(args, i, val, env, st) ==
    IF ~(i < Len(args)) THEN Ok(None, st)
    ELSE LET m == _match_pattern(args[i], val, env, st) IN
         IF ~m.ok THEN m
         ELSE LET r == evaluate(args[i + 1], env, m.st) IN
              IF ~r.ok \/ m.v THEN r
              ELSE MatchPairs_every(args, i + 2, val, env, r.st)

RECURSIVE MatchPairs(_, _, _, _, _)
MatchPairs(args, i, val, env, st) ==
    IF ~(i < Len(args)) THEN Ok(None, st)
    ELSE LET m == _match_pattern(args[i], val, env, st) IN
         IF ~m.ok THEN m
         ELSE IF m.v THEN evaluate(args[i + 1], env, m.st)
         ELSE MatchPairs(args, i + 2, val, env, m.st)

_sf_match(args, env, st) ==
    LET val == evaluate(args[1], env, st) IN
    IF ~val.ok THEN val ELSE MatchPairs(args, 2, val.v, env, val.st)

\* The initializer loop of _sf_loop: every pairs[i+1] is evaluated in loop_env
\* and collected; no name is bound until all of them are evaluated.
RECURSIVE LoopInits(_, _, _, _, _)
LoopInits(pairs, i, vals, loop_env, st) ==
    IF ~(i < Len(pairs)) THEN Ok(vals, st)
    ELSE LET val == evaluate(pairs[i + 1], loop_env, st) IN
         IF ~val.ok THEN val
         ELSE LoopInits(pairs, i + 2, Append(vals, val.v), loop_env, val.st)

LoopNames(pairs) == [k \in 1..(Len(pairs) \div 2) |-> pairs[2 * k - 1][2]]

\* Binding only when there is one value for every name.
RECURSIVE ZipSet_same_length(_, _, _, _, _)
ZipSet_same_length(names, vals, i, env, st) ==
    IF Len(names) # Len(vals) \/ i > Len(names) THEN st
    ELSE With(env_set(env, names[i], vals[i], st),
              LAMBDA s : ZipSet_same_length(names, vals, i + 1, env, s))

\* for n, v in zip(names, vals): env_set(env, n, v)
RECURSIVE ZipSet(_, _, _, _, _)
ZipSet(names, vals, i, env, st) ==
    IF i > Len(names) \/ i > Len(vals) THEN st
    ELSE With(env_set(env, names[i], vals[i], st),
              LAMBDA s : ZipSet(names, vals, i + 1, env, s))

\* The while True of _sf_loop, but with every continuation run in a fresh
\* frame, one evaluation deeper.
RECURSIVE LoopRun_fresh(_, _, _, _, _)
LoopRun_fresh(names, body, loop_env, n, st) ==
    IF n >= MaxIter THEN Raise(Exc("Diverge", n), st)
    ELSE With([st EXCEPT !.iters = Append(@, <<loop_env, st.depth>>)], LAMBDA s :
         LET result == eval_body(body, loop_env, s)
         IN  IF result.ok \/ result.v.exc # "_Recur" THEN result
             ELSE With(make_env(loop_env, <<>>, result.st), LAMBDA s1 :
                  With(ZipSet(names, result.v.arg, 1, NewEnv(result.st),
                              [s1 EXCEPT !.depth = @ + 1]),
                       LAMBDA s2 : LoopRun_fresh(names, body, NewEnv(result.st), n + 1, s2))))

\* The while True of _sf_loop.  st.iters records, per execution of the body,
\* the loop frame and the depth of pending evaluate calls; iteration MaxIter
\* is cut off as Diverge.
RECURSIVE LoopRun(_, _, _, _, _)
LoopRun(names, body, loop_env, n, st) ==
    IF n >= MaxIter THEN Raise(Exc("Diverge", n), st)
    ELSE With([st EXCEPT !.iters = Append(@, <<loop_env, st.depth>>)], LAMBDA s :
         LET result == eval_body(body, loop_env, s)
         IN  IF result.ok \/ result.v.exc # "_Recur" THEN result
             ELSE With(ZipSet(names, result.v.arg, 1, loop_env, result.st),
                       LAMBDA s2 : LoopRun(names, body, loop_env, n + 1, s2)))

_sf_loop(args, env, st) ==
    LET bindings_node == args[1]
        body == Tail(args)
        pairs == bindings_node[2]
        loop_env == NewEnv(st)
    IN  With(make_env(env, <<>>, st), LAMBDA s :
        LET vals == LoopInits(pairs, 1, <<>>, loop_env, s)
        IN  IF ~vals.ok THEN vals
            ELSE With(ZipSet(LoopNames(pairs), vals.v, 1, loop_env, vals.st),
                      LAMBDA s2 : LoopRun(LoopNames(pairs), body, loop_env, 0, s2)))

_sf_recur(args, env, st) ==
    LET values == eval_list(args, env, st) IN
    IF ~values.ok THEN values ELSE Raise(Exc("_Recur", values.v), values.st)

_sf_quote(args, env, st) ==
    LET d == Intern(_ast_to_data(args[1]), st) IN Ok(d.v, d.st)

_sf_macro(args, env, st) ==
    LET parts == args[1][2]
        name == parts[1][2]
        params == Names(Tail(parts))
        body == args[2]
        macro_val == <<"MACRO", params, body, env>>
    IN  Ok(macro_val, env_set(env, name, macro_val, st))

\* _sf_try with except Exception: every failure and signal reaches the handler.
_sf_try_any(args, env, st) ==
    LET r == evaluate(args[1], env, st) IN
    IF r.ok THEN r
    ELSE IF /\ Len(args) > 1
            /\ node_type(args[2]) = "SEXPR"
            /\ node_type(args[2][2][1]) = "SYM"
            /\ args[2][2][1][2] = "catch"
    THEN LET catch_form == args[2][2]
             err_name == catch_form[2][2]
             handler == SubSeq(catch_form, 3, Len(catch_form))
             catch_env == NewEnv(r.st)
             value == IF r.v.exc = "_HiveSpeakError" THEN r.v.arg ELSE None
         IN  With(make_env(env, << <<StrV(err_name), value>> >>, r.st),
                  LAMBDA s : eval_body(handler, catch_env, s))
    ELSE r

_sf_try(args, env, st) ==
    LET r == evaluate(args[1], env, st) IN
    IF r.ok \/ r.v.exc # "_HiveSpeakError" THEN r
    ELSE IF /\ Len(args) > 1
            /\ node_type(args[2]) = "SEXPR"
            /\ node_type(args[2][2][1]) = "SYM"
            /\ args[2][2][1][2] = "catch"
    THEN LET catch_form == args[2][2]
             err_name == catch_form[2][2]
             handler == SubSeq(catch_form, 3, Len(catch_form))
             catch_env == NewEnv(r.st)
         IN  With(make_env(env, << <<StrV(err_name), r.v.arg>> >>, r.st),
                  LAMBDA s : eval_body(handler, catch_env, s))
    ELSE r

_sf_throw(args, env, st) ==
    LET value == evaluate(args[1], env, st) IN
    IF ~value.ok THEN value ELSE Raise(Exc("_HiveSpeakError", value.v), value.st)

\* k.startswith("_") for the names the inputs bind.
PrivateNames == {"_", "_h", "_priv"}

RECURSIVE PublicBindings(_, _)
PublicBindings(d, i) ==
    IF i > Len(d) THEN <<>>
    ELSE IF d[i][1][1] = "STR" /\ d[i][1][2] \in PrivateNames
    THEN PublicBindings(d, i + 1)
    ELSE <<d[i]>> \o PublicBindings(d, i + 1)

RECURSIVE EvalEach(_, _, _)
EvalEach(nodes, env, st) ==
    IF Len(nodes) = 0 THEN Ok(None, st)
    ELSE LET h == evaluate(Head(nodes), env, st) IN
         IF ~h.ok THEN h ELSE EvalEach(Tail(nodes), env, h.st)

_sf_eval(args, env, st) ==
    LET data == evaluate(args[1], env, st) IN
    IF ~data.ok THEN data
    ELSE evaluate(_data_to_ast(Freeze(data.v, data.st)), env, data.st)

\* for step in args[1:]: val = apply_fn(fn_val, step_args + [val], env)
RECURSIVE PipeSteps(_, _, _, _)
PipeSteps(steps, val, env, st) ==
    IF steps = <<>> THEN Ok(val, st)
    ELSE LET step == Head(steps)
             fn_val == evaluate(IF node_type(step) = "SEXPR" THEN step[2][1] ELSE step, env, st)
         IN  IF ~fn_val.ok THEN fn_val
             ELSE LET step_args == IF node_type(step) = "SEXPR"
                                   THEN eval_list(Tail(step[2]), env, fn_val.st)
                                   ELSE Ok(<<>>, fn_val.st)
                  IN  IF ~step_args.ok THEN step_args
                      ELSE LET r == apply_fn(fn_val.v, Append(step_args.v, val), env, step_args.st)
                           IN  IF ~r.ok THEN r ELSE PipeSteps(Tail(steps), r.v, env, r.st)

_sf_pipe(args, env, st) ==
    LET val == evaluate(args[1], env, st) IN
    IF ~val.ok THEN val ELSE PipeSteps(Tail(args), val.v, env, val.st)

\* The body evaluated in the enclosing frame instead of the module's own.
_sf_mod_in_place(args, env, st) ==
    LET name == args[1][2]
    IN  With(make_env(env, <<>>, st), LAMBDA s :
        LET r == EvalEach(Tail(args), env, s)
        IN  IF ~r.ok THEN r
            ELSE LET mod == NewRef(r.st)
                 IN  With(Alloc(PublicBindings(Env(r.st, env), 1), r.st),
                          LAMBDA s2 : Ok(mod, env_set(env, name, mod, s2))))

_sf_mod(args, env, st) ==
    LET name == args[1][2]
        mod_env == NewEnv(st)
    IN  With(make_env(env, <<>>, st), LAMBDA s :
        LET r == EvalEach(Tail(args), mod_env, s)
        IN  IF ~r.ok THEN r
            ELSE LET mod == NewRef(r.st)
                 IN  With(Alloc(PublicBindings(Env(r.st, mod_env), 1), r.st),
                          LAMBDA s2 : Ok(mod, env_set(env, name, mod, s2))))

\* for k, v in mod.items(): env_set(env, k, v)
RECURSIVE UseAll(_, _, _, _)
UseAll(mod, i, env, st) ==
    IF i > Len(mod) THEN st
    ELSE UseAll(mod, i + 1, env, [st EXCEPT !.frames[env].b = DictSet(@, mod[i][1], mod[i][2])])

\* Every name looked up before any is bound: all or nothing.
RECURSIVE UseNames_atomic(_, _, _, _, _)
UseNames_atomic(names, mod, mod_name, env, st) ==
    IF \E i \in 1..Len(names) : ~DictHas(mod, StrV(names[i][2]))
    THEN LET j == CHOOSE i \in 1..Len(names) :
                     /\ ~DictHas(mod, StrV(names[i][2]))
                     /\ \A k \in 1..(i - 1) : DictHas(mod, StrV(names[k][2]))
         IN  Raise(Exc("RuntimeError", names[j][2] \o " not found in module " \o mod_name), st)
    ELSE IF names = <<>> THEN Ok(None, st)
    ELSE UseNames_atomic(Tail(names), mod, mod_name, env,
                         env_set(env, Head(names)[2], DictGet(mod, StrV(Head(names)[2])), st))

\* for a in args[1:]: the name must be in mod, then env_set(env, name, mod[name])
RECURSIVE UseNames(_, _, _, _, _)
UseNames(names, mod, mod_name, env, st) ==
    IF names = <<>> THEN Ok(None, st)
    ELSE LET name == Head(names)[2] IN
         IF ~DictHas(mod, StrV(name))
         THEN Raise(Exc("RuntimeError", name \o " not found in module " \o mod_name), st)
         ELSE UseNames(Tail(names), mod, mod_name, env,
                       env_set(env, name, DictGet(mod, StrV(name)), st))

\* (use module) or (use module name1 name2...): args[0][1] is looked up as a
\* name whatever the node's type.
_sf_use(args, env, st) ==
    LET mod_name == args[1][2]
        mod == env_get(env, mod_name, st)
    IN  IF ~mod.ok THEN mod
        ELSE IF ~(mod.v[1] = "DICT")
        THEN Raise(Exc("RuntimeError", mod_name \o " is not a module"), st)
        ELSE IF Len(args) = 1 THEN Ok(None, UseAll(Heap(st, mod.v), 1, env, st))
        ELSE UseNames(Tail(args), Heap(st, mod.v), mod_name, env, st)

\* ---- Hive primitives ----
\* d.get(k, default) for a dict object or by-value pairs d.
DictGetOr(d, k, default) == IF DictHas(d, k) THEN DictGet(d, k) ELSE default

IsDict(v) == v[1] = "DICT"

\* isinstance(v, dict) and v.get("__type__") == t
HasType(v, t, st) ==
    IsDict(v) /\ PyEq(DictGetOr(Heap(st, v), StrV("__type__"), None), StrV(t))

\* The dict object r with key k set to v.
HeapSet(r, k, v, st) == [st EXCEPT !.heap[r[2]] = DictSet(@, k, v)]

_sf_cell(args, env, st) ==
    LET state == evaluate(args[1], env, st) IN
    IF ~state.ok THEN state
    ELSE With(content_hash(state.v, state.st), LAMBDA cell_id :
             Ok(NewRef(cell_id.st),
                Alloc(<< <<StrV("__type__"), StrV("cell")>>, <<StrV("id"), StrV(cell_id.v)>>,
                         <<StrV("state"), state.v>>, <<StrV("inbox"), <<"LIST", <<>>>>>> >>,
                      cell_id.st)))

\* Delivery by identifier: the message goes to the first cell made that carries
\* the target's id.
EmitTo_by_id(cell, target, content, st) ==
    IF ~HasType(target, "cell", st) THEN Ok(content, st)
    ELSE LET same == {i \in 1..Len(st.heap) :
                         /\ HasType(<<"DICT", i>>, "cell", st)
                         /\ DictGet(st.heap[i], StrV("id")) = DictGet(Heap(st, target), StrV("id"))}
             to == <<"DICT", CHOOSE i \in same : \A j \in same : i <= j>>
             msg == << <<StrV("from"), DictGetOr(Heap(st, cell), StrV("id"), None)>>,
                       <<StrV("content"), content>> >>
             m == NewRef(st)
         IN  With(Alloc(msg, st), LAMBDA s1 :
             With(HeapSet(to, StrV("inbox"),
                          <<"LIST", Append(DictGet(Heap(s1, to), StrV("inbox"))[2], m)>>, s1),
                  LAMBDA s2 :
                      Ok(content, [s2 EXCEPT !.log = Append(@, <<"append", to[2], m>>)])))

\* target["inbox"].append({"from": cell.get("id"), "content": content}) when the
\* target is a cell; the list under "inbox" is held in the cell's dict, and
\* st.log records the append.  Returns content.
EmitTo(cell, target, content, st) ==
    IF ~HasType(target, "cell", st) THEN Ok(content, st)
    ELSE IF ~DictHas(Heap(st, target), StrV("inbox")) THEN Raise(Exc("KeyError", "inbox"), st)
    ELSE IF DictGet(Heap(st, target), StrV("inbox"))[1] # "LIST"
    THEN Raise(Exc("AttributeError", "append"), st)
    ELSE IF ~IsDict(cell) THEN Raise(Exc("AttributeError", "get"), st)
    ELSE LET msg == << <<StrV("from"), DictGetOr(Heap(st, cell), StrV("id"), None)>>,
                       <<StrV("content"), content>> >>
             m == NewRef(st)
         IN  With(Alloc(msg, st), LAMBDA s1 :
             With(HeapSet(target, StrV("inbox"),
                          <<"LIST", Append(DictGet(Heap(s1, target), StrV("inbox"))[2], m)>>, s1),
                  LAMBDA s2 :
                      Ok(content, [s2 EXCEPT !.log = Append(@, <<"append", target[2], m>>)])))

_sf_emit(args, env, st) ==
    LET cell == evaluate(args[1], env, st) IN
    IF ~cell.ok THEN cell
    ELSE LET mode == evaluate(args[2], env, cell.st) IN
    IF ~mode.ok THEN mode
    ELSE IF mode.v = <<"KW", "target">> THEN
        LET target == evaluate(args[3], env, mode.st) IN
        IF ~target.ok THEN target
        ELSE LET content == evaluate(args[4], env, target.st) IN
             IF ~content.ok THEN content
             ELSE EmitTo(cell.v, target.v, content.v, content.st)
    ELSE IF mode.v = <<"KW", "broadcast">> THEN evaluate(args[3], env, mode.st)
    ELSE LET target == evaluate(args[2], env, mode.st) IN
         IF ~target.ok THEN target
         ELSE LET content == evaluate(args[3], env, target.st) IN
              IF ~content.ok THEN content
              ELSE EmitTo(cell.v, target.v, content.v, content.st)

\* _sf_recv taking the newest message: cell["inbox"].pop().
_sf_recv_newest(args, env, st) ==
    LET cell == evaluate(args[1], env, st) IN
    IF ~cell.ok THEN cell
    ELSE IF ~IsDict(cell.v) THEN Ok(None, cell.st)
    ELSE LET inbox == DictGetOr(Heap(cell.st, cell.v), StrV("inbox"), None) IN
         IF ~_truthy(Freeze(inbox, cell.st)) THEN Ok(None, cell.st)
         ELSE IF inbox[1] # "LIST" THEN Raise(Exc("AttributeError", "pop"), cell.st)
         ELSE LET n == Len(inbox[2]) IN
              With(HeapSet(cell.v, StrV("inbox"), <<"LIST", SubSeq(inbox[2], 1, n - 1)>>, cell.st),
                   LAMBDA s1 :
                       Ok(inbox[2][n],
                          [s1 EXCEPT !.log = Append(@, <<"pop", cell.v[2], inbox[2][n]>>)]))

\* cell["inbox"].pop(0) when the inbox is truthy; st.log records the pop.
_sf_recv(args, env, st) ==
    LET cell == evaluate(args[1], env, st) IN
    IF ~cell.ok THEN cell
    ELSE IF ~IsDict(cell.v) THEN Ok(None, cell.st)
    ELSE LET inbox == DictGetOr(Heap(cell.st, cell.v), StrV("inbox"), None) IN
         IF ~_truthy(Freeze(inbox, cell.st)) THEN Ok(None, cell.st)
         ELSE IF inbox[1] # "LIST" THEN Raise(Exc("AttributeError", "pop"), cell.st)
         ELSE With(HeapSet(cell.v, StrV("inbox"), <<"LIST", Tail(inbox[2])>>, cell.st),
                   LAMBDA s1 :
                       Ok(Head(inbox[2]),
                          [s1 EXCEPT !.log = Append(@, <<"pop", cell.v[2], Head(inbox[2])>>)]))

\* [x[1] if isinstance(x, tuple) else x for x in on_keys]
OnKeys(on_keys) ==
    [i \in 1..Len(on_keys[2]) |->
        IF on_keys[2][i][1] \in {"KW", "HASH", "SYM"} THEN StrV(on_keys[2][i][2])
        ELSE on_keys[2][i]]

\* The grouping loop putting each value in front of its list.
RECURSIVE MergeState_front(_, _, _, _)
MergeState_front(state, j, on_keys, merged) ==
    IF j > Len(state) THEN merged
    ELSE LET k == state[j][1]
             v == state[j][2]
             take == on_keys = None \/ \E i \in 1..Len(OnKeys(on_keys)) : PyEq(OnKeys(on_keys)[i], k)
             old == IF DictHas(merged, k) THEN DictGet(merged, k)[2] ELSE <<>>
         IN  MergeState_front(state, j + 1, on_keys,
                              IF take THEN DictSet(merged, k, <<"LIST", <<v>> \o old>>) ELSE merged)

\* for k, v in state.items(): if on_keys is None or k in [...]: merged[k].append(v)
RECURSIVE MergeState(_, _, _, _)
MergeState(state, j, on_keys, merged) ==
    IF j > Len(state) THEN merged
    ELSE LET k == state[j][1]
             v == state[j][2]
             take == on_keys = None \/ \E i \in 1..Len(OnKeys(on_keys)) : PyEq(OnKeys(on_keys)[i], k)
             old == IF DictHas(merged, k) THEN DictGet(merged, k)[2] ELSE <<>>
         IN  MergeState(state, j + 1, on_keys,
                        IF take THEN DictSet(merged, k, <<"LIST", Append(old, v)>>) ELSE merged)

\* for c in cells: the cells among the elements contribute their state.
RECURSIVE MergeCells(_, _, _, _, _)
MergeCells(cells, i, on_keys, merged, st) ==
    IF i > Len(cells) THEN Ok(merged, st)
    ELSE IF ~HasType(cells[i], "cell", st) THEN MergeCells(cells, i + 1, on_keys, merged, st)
    ELSE LET state == DictGetOr(Heap(st, cells[i]), StrV("state"), <<"MAP", <<>>>>) IN
         IF state[1] \notin {"DICT", "MAP"} THEN Raise(Exc("AttributeError", "items"), st)
         ELSE MergeCells(cells, i + 1, on_keys,
                         MergeState(IF state[1] = "DICT" THEN Heap(st, state) ELSE state[2],
                                    1, on_keys, merged), st)

\* (merge [cells] :on [keys]): the elements and the keys are given as lists.
_sf_merge(args, env, st) ==
    LET cells == evaluate(args[1], env, st) IN
    IF ~cells.ok THEN cells
    ELSE LET on_keys == IF Len(args) > 2 THEN evaluate(args[3], env, cells.st)
                        ELSE Ok(None, cells.st) IN
    IF ~on_keys.ok THEN on_keys
    ELSE IF cells.v[1] # "LIST" \/ on_keys.v[1] \notin {"LIST", "NULL"}
    THEN Raise(Exc("TypeError", "not iterable"), on_keys.st)
    ELSE LET merged == MergeCells(cells.v[2], 1, on_keys.v, <<>>, on_keys.st) IN
    IF ~merged.ok THEN merged
    ELSE LET shared == NewRef(on_keys.st) IN
         With(Alloc(merged.v, on_keys.st), LAMBDA s1 :
             Ok(NewRef(s1),
                Alloc(<< <<StrV("__type__"), StrV("collective")>>, <<StrV("shared"), shared>>,
                         <<StrV("cells"), cells.v>> >>, s1)))

\* counts[str(v)] = counts.get(str(v), 0) + 1 for v in values
RECURSIVE CountValues(_, _, _, _)
CountValues(values, i, counts, st) ==
    IF i > Len(values) THEN counts
    ELSE LET key == StrV(PyStr(Freeze(values[i], st)))
         IN  CountValues(values, i + 1,
                         DictSet(counts, key, DictGetOr(counts, key, 0) + 1), st)

\* max(counts, key=counts.get): the first key, in insertion order, of maximal count.
MaxKey(counts) ==
    counts[CHOOSE i \in 1..Len(counts) :
              /\ \A j \in 1..Len(counts) : counts[j][2] <= counts[i][2]
              /\ \A j \in 1..(i - 1) : counts[j][2] < counts[i][2]][1]

\* for v in values: if str(v) == winner: compressed[k] = v; break
FirstPrinted(values, winner, st) ==
    values[CHOOSE i \in 1..Len(values) :
              /\ StrV(PyStr(Freeze(values[i], st))) = winner
              /\ \A j \in 1..(i - 1) : StrV(PyStr(Freeze(values[j], st))) # winner]

\* for k, values in shared.items(): if values: compressed[k] = the winner
RECURSIVE CompressShared(_, _, _, _)
CompressShared(shared, i, compressed, st) ==
    IF i > Len(shared) THEN compressed
    ELSE LET values == shared[i][2]
         IN  IF values[1] # "LIST" \/ Len(values[2]) = 0
             THEN CompressShared(shared, i + 1, compressed, st)
             ELSE CompressShared(shared, i + 1,
                      DictSet(compressed, shared[i][1],
                              FirstPrinted(values[2],
                                           MaxKey(CountValues(values[2], 1, <<>>, st)), st)),
                      st)

\* packet = {"__type__": "packet", "hash": h, "data": data}; _PACKET_STORE[h] = packet
StorePacket(data, st) ==
    With(content_hash(data, st), LAMBDA pkt_hash :
        LET packet == NewRef(pkt_hash.st)
        IN  With(Alloc(<< <<StrV("__type__"), StrV("packet")>>,
                          <<StrV("hash"), StrV(pkt_hash.v)>>, <<StrV("data"), data>> >>,
                       pkt_hash.st),
                 LAMBDA s1 :
                     Ok(packet, [s1 EXCEPT !.packets = DictSet(@, StrV(pkt_hash.v), packet)])))

\* The values of a collective's shared map are the lists merge made.
_sf_compress(args, env, st) ==
    LET coll == evaluate(args[1], env, st) IN
    IF ~coll.ok THEN coll
    ELSE IF ~HasType(coll.v, "collective", coll.st) THEN
        Ok(NewRef(coll.st), Alloc(<< <<StrV("fail"), StrV("not-collective")>> >>, coll.st))
    ELSE LET shared == DictGetOr(Heap(coll.st, coll.v), StrV("shared"), <<"MAP", <<>>>>) IN
         IF shared[1] \notin {"DICT", "MAP"} THEN Raise(Exc("AttributeError", "items"), coll.st)
         ELSE LET compressed ==
                      CompressShared(IF shared[1] = "DICT" THEN Heap(coll.st, shared)
                                     ELSE shared[2], 1, <<>>, coll.st)
                  data == NewRef(coll.st)
              IN  With(Alloc(compressed, coll.st), LAMBDA s1 :
                  With(StorePacket(data, s1), LAMBDA p :
                      Ok(NewRef(p.st), Alloc(<< <<StrV("ok"), p.v>> >>, p.st))))

_sf_ref(args, env, st) ==
    LET h == args[1]
        hash_val == IF node_type(h) = "HASH" THEN Ok(StrV(h[2]), st) ELSE evaluate(h, env, st)
    IN  IF ~hash_val.ok THEN hash_val
        ELSE LET hv == IF hash_val.v[1] = "HASH" THEN StrV(hash_val.v[2]) ELSE hash_val.v
                 key == StrV(PyStr(Freeze(hv, hash_val.st)))
             IN  Ok(DictGetOr(hash_val.st.packets, key, None), hash_val.st)

_sf_packet(args, env, st) ==
    LET data == evaluate(args[1], env, st) IN
    IF ~data.ok THEN data ELSE StorePacket(data.v, data.st)

\* _sf_intent(intent_type): the handler made for one intent name.
_sf_intent(intent_type, args, env, st) ==
    LET content == IF args # <<>> THEN evaluate(args[1], env, st) ELSE Ok(None, st) IN
    IF ~content.ok THEN content
    ELSE Ok(NewRef(content.st),
            Alloc(<< <<StrV("__type__"), StrV("intent")>>, <<StrV("intent"), StrV(intent_type)>>,
                     <<StrV("content"), content.v>> >>, content.st))

special_form(name, args, env, st) ==
    CASE name = "def" -> _sf_def(args, env, st)
      [] name = "let" -> _sf_let(args, env, st)
      [] name = "fn" -> _sf_fn(args, env, st)
      [] name = "if" -> _sf_if(args, env, st)
      [] name = "do" -> _sf_do(args, env, st)
      [] name = "match" -> _sf_match(args, env, st)
      [] name = "loop" -> _sf_loop(args, env, st)
      [] name = "recur" -> _sf_recur(args, env, st)
      [] name = "quote" -> _sf_quote(args, env, st)
      [] name = "eval" -> _sf_eval(args, env, st)
      [] name = "|>" -> _sf_pipe(args, env, st)
      [] name = "macro" -> _sf_macro(args, env, st)
      [] name = "try" -> _sf_try(args, env, st)
      [] name = "catch" -> Ok(None, st)
      [] name = "throw" -> _sf_throw(args, env, st)
      [] name = "mod" -> _sf_mod(args, env, st)
      [] name = "cell" -> _sf_cell(args, env, st)
      [] name = "emit" -> _sf_emit(args, env, st)
      [] name = "recv" -> _sf_recv(args, env, st)
      [] name = "merge" -> _sf_merge(args, env, st)
      [] name = "compress" -> _sf_compress(args, env, st)
      [] name = "ref" -> _sf_ref(args, env, st)
      [] name = "packet" -> _sf_packet(args, env, st)
      [] name = "use" -> _sf_use(args, env, st)
      [] name = "assert!" -> _sf_intent("assert", args, env, st)
      [] name = "ask?" -> _sf_intent("ask", args, env, st)
      [] name = "request!" -> _sf_intent("request", args, env, st)
      [] name = "suggest~" -> _sf_intent("suggest", args, env, st)
      [] name = "accept+" -> _sf_intent("accept", args, env, st)
      [] name = "reject-" -> _sf_intent("reject", args, env, st)

\* ---- Public API and host ----
run_program(ast_nodes, env, st) == eval_body(ast_nodes, env, st)


\* ---- REPL inputs: parsed top-level forms ----
L0 == <<1, 1>>

S(name) == n_sym(name, L0)

I(v) == n_int(v, L0)

X(elements) == n_sexpr(elements, L0)

V(elements) == n_list(elements, L0)

\* (def (make-adder n) (fn [x] (+ x n)))
MakeAdderDef ==
    X(<<S("def"), X(<<S("make-adder"), S("n")>>),
        X(<<S("fn"), V(<<S("x")>>), X(<<S("+"), S("x"), S("n")>>)>>)>>)

\* (def add (make-adder k))
DefAdd(k) == X(<<S("def"), S("add"), X(<<S("make-adder"), I(k)>>)>>)

\* (def name v)
Def(name, v) == X(<<S("def"), S(name), I(v)>>)

\* (def name expr)
Def2(name, expr) == X(<<S("def"), S(name), expr>>)

\* (add x), (let [n v] (add x)), ((fn [n] (add x)) v)
CallAdd(x) == X(<<S("add"), I(x)>>)

LetCallAdd(v, x) == X(<<S("let"), V(<<S("n"), I(v)>>), CallAdd(x)>>)

FnCallAdd(v, x) == X(<<X(<<S("fn"), V(<<S("n")>>), CallAdd(x)>>), I(v)>>)

ClosureInputs ==
    << <<MakeAdderDef, DefAdd(2)>>, <<MakeAdderDef, DefAdd(5)>>, <<Def("n", 100)>>,
       <<CallAdd(1)>>, <<CallAdd(10)>>, <<LetCallAdd(7, 1)>>, <<LetCallAdd(7, 10)>>,
       <<FnCallAdd(9, 1)>>, <<FnCallAdd(9, 10)>> >>

\* def in the global frame and inside let, function, loop and mod frames.
\* (let [a 1] (def x 9))
LetDef == X(<<S("let"), V(<<S("a"), I(1)>>), Def("x", 9)>>)

\* (let [a 1] (def (x p) p))
LetDefFn == X(<<S("let"), V(<<S("a"), I(1)>>), X(<<S("def"), X(<<S("x"), S("p")>>), S("p")>>)>>)

\* ((fn [] (def x 7)))
FnDef == X(<<X(<<S("fn"), V(<<>>), Def("x", 7)>>)>>)

\* (loop [i 0] (def x 8))
LoopDef == X(<<S("loop"), V(<<S("i"), I(0)>>), Def("x", 8)>>)

\* (mod m (def x 5))
ModDef == X(<<S("mod"), S("m"), Def("x", 5)>>)

\* (let [x 3] (let [y 4] (def x 6)))
NestedLetDef ==
    X(<<S("let"), V(<<S("x"), I(3)>>), X(<<S("let"), V(<<S("y"), I(4)>>), Def("x", 6)>>)>>)

DefInputs ==
    << <<Def("x", 1)>>, <<Def("x", 2)>>, <<LetDef>>, <<LetDefFn>>, <<FnDef>>,
       <<LoopDef>>, <<ModDef>>, <<NestedLetDef>> >>

\* (let [a v b (* a 2)] b)
LetSeq(v) ==
    X(<<S("let"), V(<<S("a"), I(v), S("b"), X(<<S("*"), S("a"), I(2)>>)>>), S("b")>>)

\* (let [a 1 b (+ a 1) c (+ a b)] (def r c) r)
LetSeq3 ==
    X(<<S("let"),
        V(<<S("a"), I(1), S("b"), X(<<S("+"), S("a"), I(1)>>),
            S("c"), X(<<S("+"), S("a"), S("b")>>)>>),
        Def2("r", S("c")), S("r")>>)

\* (let [a 7 a (+ a 1)] a)
LetShadow ==
    X(<<S("let"), V(<<S("a"), I(7), S("a"), X(<<S("+"), S("a"), I(1)>>)>>), S("a")>>)

LetInputs ==
    << <<LetSeq(5)>>, <<LetSeq(3)>>, <<LetSeq3>>, <<LetShadow>>,
       <<Def("a", 100)>>, <<Def("b", 200)>> >>

\* (def (f x) (recur x))
DefRecurFn == X(<<S("def"), X(<<S("f"), S("x")>>), X(<<S("recur"), S("x")>>)>>)

\* (loop [i 0] (if (= i 0) (f 1) i))
LoopCallsF ==
    X(<<S("loop"), V(<<S("i"), I(0)>>),
        X(<<S("if"), X(<<S("="), S("i"), I(0)>>), X(<<S("f"), I(1)>>), S("i")>>)>>)

\* (loop [j 0] (if (= j 1) j (recur (+ j 1))))
InnerLoop ==
    X(<<S("loop"), V(<<S("j"), I(0)>>),
        X(<<S("if"), X(<<S("="), S("j"), I(1)>>), S("j"),
            X(<<S("recur"), X(<<S("+"), S("j"), I(1)>>)>>)>>)>>)

\* (loop [i 0] (if (= i 2) i (recur (+ i <InnerLoop>))))
NestedLoops ==
    X(<<S("loop"), V(<<S("i"), I(0)>>),
        X(<<S("if"), X(<<S("="), S("i"), I(2)>>), S("i"),
            X(<<S("recur"), X(<<S("+"), S("i"), InnerLoop>>)>>)>>)>>)

\* (loop [a 1 b (+ a 1)] b)
LoopSeq ==
    X(<<S("loop"), V(<<S("a"), I(1), S("b"), X(<<S("+"), S("a"), I(1)>>)>>), S("b")>>)

\* (loop [i 0 acc 0] (if (= i n) acc (recur (+ i 1) (+ acc i))))
SumLoop(n) ==
    X(<<S("loop"), V(<<S("i"), I(0), S("acc"), I(0)>>),
        X(<<S("if"), X(<<S("="), S("i"), I(n)>>), S("acc"),
            X(<<S("recur"), X(<<S("+"), S("i"), I(1)>>),
                X(<<S("+"), S("acc"), S("i")>>)>>)>>)>>)

LoopInputs ==
    << <<DefRecurFn>>, <<LoopCallsF>>, <<NestedLoops>>, <<LoopSeq>>, <<Def("a", 10)>> >>
    \o [n \in 1..(MaxN + 1) |-> <<SumLoop(n - 1)>>]

\* (try body (catch e handler...))
Try(body, handler) == X(<<S("try"), body, X(<<S("catch"), S("e")>> \o handler)>>)

Throw(expr) == X(<<S("throw"), expr>>)

Plus(a, b) == X(<<S("+"), a, b>>)

\* (try (throw v) (catch e (def h e) (+ e 1)))
TryThrow(v) == Try(Throw(I(v)), <<Def2("h", S("e")), Plus(S("e"), I(1))>>)

\* (def (boom v) (throw v))
DefThrower == X(<<S("def"), X(<<S("boom"), S("v")>>), Throw(S("v"))>>)

\* (try (boom 3) (catch e (+ e 1)))
TryCall == Try(X(<<S("boom"), I(3)>>), <<Plus(S("e"), I(1))>>)

\* (try (try (throw 1) (catch e (+ e 10))) (catch e (+ e 100)))
TryNearest == Try(Try(Throw(I(1)), <<Plus(S("e"), I(10))>>), <<Plus(S("e"), I(100))>>)

\* (try (try (throw 1) (catch e (throw (+ e 10)))) (catch e (+ e 100)))
TryRethrow ==
    Try(Try(Throw(I(1)), <<Throw(Plus(S("e"), I(10)))>>), <<Plus(S("e"), I(100))>>)

\* (try (try (throw 1)) (catch e (+ e 10)))
TryNoCatchInside == Try(X(<<S("try"), Throw(I(1))>>), <<Plus(S("e"), I(10))>>)

\* (try nosuch (catch e (def h 1) 0))
TryUndefined == Try(S("nosuch"), <<Def("h", 1), I(0)>>)

\* (try (5 1) (catch e (def h 1) 0))
TryNotCallable == Try(X(<<I(5), I(1)>>), <<Def("h", 1), I(0)>>)

\* (try (recur 1) (catch e (def h 1) 0))
TryRecur == Try(X(<<S("recur"), I(1)>>), <<Def("h", 1), I(0)>>)

\* (loop [i 0] (if (= i 0) (try (recur 1) (catch e 99)) i))
LoopTryRecur ==
    X(<<S("loop"), V(<<S("i"), I(0)>>),
        X(<<S("if"), X(<<S("="), S("i"), I(0)>>),
            Try(X(<<S("recur"), I(1)>>), <<I(99)>>), S("i")>>)>>)

\* (try 7 (catch e (def h 1) 0))
TryOk == Try(I(7), <<Def("h", 1), I(0)>>)

TryInputs ==
    << <<TryThrow(1)>>, <<TryThrow(5)>>, <<DefThrower>>, <<TryCall>>, <<TryNearest>>,
       <<TryRethrow>>, <<TryNoCatchInside>>, <<TryUndefined>>, <<TryNotCallable>>,
       <<TryRecur>>, <<LoopTryRecur>>, <<TryOk>> >>

Do(forms) == X(<<S("do")>> \o forms)

\* (do (def x 7) (nosuch))
DoDefFail == Do(<<Def("x", 7), X(<<S("nosuch")>>)>>)

\* (do (nosuch) (def x 7))
DoFailDef == Do(<<X(<<S("nosuch")>>), Def("x", 7)>>)

\* (do (def x 8) (throw 1))
DoDefThrow == Do(<<Def("x", 8), Throw(I(1))>>)

FailInputs ==
    << <<Def("x", 1)>>, <<Def("y", 2)>>, <<DoDefFail>>, <<DoFailDef>>, <<DoDefThrow>>,
       <<Def("x", 1), DoDefFail>>, <<S("x")>> >>

\* Symbols at their own source positions.
SymAt(name, line, col) == n_sym(name, <<line, col>>)

\* (let [x 2] x), (let [x 2] (let [y 3] x)), ((fn [x] x) 5)
LetX == X(<<S("let"), V(<<S("x"), I(2)>>), SymAt("x", 1, 12)>>)

LetLetX ==
    X(<<S("let"), V(<<S("x"), I(2)>>),
        X(<<S("let"), V(<<S("y"), I(3)>>), SymAt("x", 1, 23)>>)>>)

FnX == X(<<X(<<S("fn"), V(<<S("x")>>), SymAt("x", 1, 11)>>), I(5)>>)

\* (let [y 3] x): x resolves in an ancestor frame, or nowhere.
LetYX == X(<<S("let"), V(<<S("y"), I(3)>>), SymAt("x", 1, 12)>>)

SymInputs ==
    << <<Def("x", 1)>>, <<SymAt("x", 1, 1)>>, <<LetX>>, <<LetLetX>>, <<FnX>>, <<LetYX>>,
       <<SymAt("undefined_var", 1, 1)>>, <<SymAt("undefined_var", 2, 5)>> >>

\* (macro (unless cond body) (if (not cond) body N))
MacroUnless ==
    X(<<S("macro"), X(<<S("unless"), S("cond"), S("body")>>),
        X(<<S("if"), X(<<S("not"), S("cond")>>), S("body"), n_null(L0)>>)>>)

\* (unless F 42), (unless T 42), (unless T (nosuch))
Unless(c, body) == X(<<S("unless"), n_bool(c, L0), body>>)

\* (macro (square-sum a b) (let [s (+ a b)] (* s s)))
MacroSquareSum ==
    X(<<S("macro"), X(<<S("square-sum"), S("a"), S("b")>>),
        X(<<S("let"), V(<<S("s"), Plus(S("a"), S("b"))>>), X(<<S("*"), S("s"), S("s")>>)>>)>>)

\* (square-sum 3 4)
SquareSumCall == X(<<S("square-sum"), I(3), I(4)>>)

\* (macro (show-and-return expr) expr)
MacroShow == X(<<S("macro"), X(<<S("show-and-return"), S("expr")>>), S("expr")>>)

\* (show-and-return (+ x 5))
ShowCall == X(<<S("show-and-return"), Plus(S("x"), I(5))>>)

MacroInputs ==
    << <<MacroUnless>>, <<Unless(FALSE, I(42))>>, <<Unless(TRUE, I(42))>>,
       <<Unless(TRUE, X(<<S("nosuch")>>))>>, <<MacroUnless, Unless(FALSE, I(42))>>,
       <<MacroSquareSum>>, <<SquareSumCall>>, <<MacroShow>>, <<ShowCall>>,
       <<Def("x", 10)>> >>

\* Map literal {:k v ...} and keyword :k
Kw(name) == n_kw(name, L0)

MapLit(elements) == n_map(elements, L0)

Str(s) == n_str(s, L0)

\* (def name (cell {:x v}))
DefCell(name, v) == Def2(name, X(<<S("cell"), MapLit(<<Kw("x"), v>>)>>))

\* (macro (m a b) (def t 9))
MacroT == X(<<S("macro"), X(<<S("m"), S("a"), S("b")>>), Def("t", 9)>>)

\* (m (def z 1) (def w (+ z 1)))
CallMDefs == X(<<S("m"), Def("z", 1), Def2("w", Plus(S("z"), I(1)))>>)

\* (m (emit c c 5) (recv c))
CallMEmit ==
    X(<<S("m"), X(<<S("emit"), S("c"), S("c"), I(5)>>), X(<<S("recv"), S("c")>>)>>)

\* (m (packet 3) 0)
CallMPacket == X(<<S("m"), X(<<S("packet"), I(3)>>), I(0)>>)

\* (m (def z 5) nosuch (def w 3))
CallMUndef == X(<<S("m"), Def("z", 5), S("nosuch"), Def("w", 3)>>)

MacroCallInputs ==
    << <<MacroT>>, <<CallMDefs>>, <<DefCell("c", I(1))>>, <<CallMEmit>>, <<CallMPacket>>,
       <<CallMUndef>>, <<Def("z", 3)>>, <<MacroT, DefCell("c", I(2))>> >>

\* match: every evaluated part appends its digit to the trace tr, which the
\* scrutinee starts at 1 after counting itself in s.
\* (do (def tr (+ (* tr 10) k)) v)
Step(k, v) == Do(<<Def2("tr", X(<<S("+"), X(<<S("*"), S("tr"), I(10)>>), I(k)>>)), v>>)

\* (do (def s (+ s 1)) (def tr 1) v)
Scrutinee(v) == Do(<<Def2("s", X(<<S("+"), S("s"), I(1)>>)), Def("tr", 1), v>>)

\* (match v 1 "one" 2 "two" 2 "dup"), each part traced
MatchOn(v) ==
    X(<<S("match"), Scrutinee(I(v)), Step(2, I(1)), Step(3, Str("one")),
        Step(4, I(2)), Step(5, Str("two")), Step(6, I(2)), Step(7, Str("dup"))>>)

\* (match v 1 "one" _ "other" 2 "two"), each part traced
MatchWild(v) ==
    X(<<S("match"), Scrutinee(I(v)), Step(2, I(1)), Step(3, Str("one")),
        S("_"), Step(5, Str("other")), Step(6, I(2)), Step(7, Str("two"))>>)

\* (match [1 {:a 2}] [{:a 2} 1] "no" [1 {:a 2}] "yes"), each part traced
MatchData ==
    LET m == MapLit(<<Kw("a"), I(2)>>) IN
    X(<<S("match"), Scrutinee(n_list(<<I(1), m>>, L0)),
        Step(2, n_list(<<m, I(1)>>, L0)), Step(3, Str("no")),
        Step(4, n_list(<<I(1), m>>, L0)), Step(5, Str("yes"))>>)

MatchInputs ==
    << <<Def("s", 0)>>, <<MatchData>> >>
    \o [v \in 1..MaxN |-> <<MatchOn(v)>>] \o [v \in 1..MaxN |-> <<MatchWild(v)>>]

\* if: the conditions of the truthiness table.  The first six are Null, false,
\* integer 0, "", [] and {}; the seventh is the float 0.0.
Conds ==
    << n_null(L0), n_bool(FALSE, L0), I(0), Str(""), n_list(<<>>, L0), MapLit(<<>>),
       n_float(0, L0),
       n_bool(TRUE, L0), I(-1), I(42), n_float(2, L0), n_float(-1, L0), Str(" "), Kw("a"),
       X(<<S("fn"), V(<<S("x")>>), S("x")>>), X(<<S("cell"), MapLit(<<>>)>>),
       X(<<S("packet"), I(0)>>), n_list(<<I(0)>>, L0), MapLit(<<Kw("a"), I(0)>>) >>

\* (if c 1 2)
If(c) == X(<<S("if"), c, I(1), I(2)>>)

\* (if c 1)
IfNoElse(c) == X(<<S("if"), c, I(1)>>)

IfInputs ==
    [i \in 1..Len(Conds) |-> <<If(Conds[i])>>] \o [i \in 1..Len(Conds) |-> <<IfNoElse(Conds[i])>>]

\* Inbox traffic between cell c (also bound as e) and cell d.
\* (emit a b v), (emit a :target b v), (recv a)
Emit(a, b, v) == X(<<S("emit"), S(a), S(b), I(v)>>)

EmitTarget(a, b, v) == X(<<S("emit"), S(a), Kw("target"), S(b), I(v)>>)

Recv(a) == X(<<S("recv"), S(a)>>)

\* (def c (cell {:x 1})) (def d (cell {:x 2})) (def e c)
DefCells == <<DefCell("c", I(1)), DefCell("d", I(2)), Def2("e", S("c"))>>

InboxOps ==
    <<Emit("c", "c", 1), EmitTarget("d", "e", 2), Emit("c", "d", 3), Recv("c"), Recv("d")>>

InboxInputs ==
    <<DefCells>> \o [i \in 1..Len(InboxOps) |-> <<InboxOps[i]>>]
    \o [i \in 1..Len(InboxOps) |-> <<InboxOps[i], InboxOps[1]>>]
    \o [i \in 1..Len(InboxOps) |-> <<InboxOps[i], InboxOps[2]>>]
    \o [i \in 1..Len(InboxOps) |-> <<InboxOps[i], InboxOps[4]>>]

\* emit between cells c and d of equal state (equal id) and cell f, to targets
\* that are no cells, and as broadcast.
\* (def c (cell {:x 1})) (def d (cell {:x 1})) (def f (cell {:x 2}))
DefTwins == <<DefCell("c", I(1)), DefCell("d", I(1)), DefCell("f", I(2))>>

\* (emit a target v), (emit a :target target v), (emit a :broadcast v)
EmitNode(a, target, v) == X(<<S("emit"), S(a), target, I(v)>>)

EmitTargetNode(a, target, v) == X(<<S("emit"), S(a), Kw("target"), target, I(v)>>)

EmitBroadcast(a, v) == X(<<S("emit"), S(a), Kw("broadcast"), I(v)>>)

NonCells == <<I(7), n_null(L0), Str("d"), MapLit(<<Kw("inbox"), n_list(<<>>, L0)>>)>>

EmitInputs ==
    <<DefTwins>>
    \o [v \in 1..MaxN |-> <<Emit("c", "d", v)>>]
    \o [v \in 1..MaxN |-> <<EmitTarget("f", "c", v)>>]
    \o [v \in 1..MaxN |-> <<EmitBroadcast("c", v)>>]
    \o [i \in 1..Len(NonCells) |-> <<EmitNode("c", NonCells[i], i)>>]
    \o [i \in 1..Len(NonCells) |-> <<EmitTargetNode("d", NonCells[i], i)>>]

\* compress: three cells merged and compressed; x is 1, "1" or 2 in the first
\* two and "1" in the third.
XVals == <<I(1), Str("1"), I(2)>>

\* (def a (cell {:x v1})) (def b (cell {:x v2})) (def c (cell {:x v3}))
\* (compress (merge [a b c]))
CompressOf(v1, v2, v3) ==
    <<DefCell("a", v1), DefCell("b", v2), DefCell("c", v3),
      X(<<S("compress"), X(<<S("merge"), n_list(<<S("a"), S("b"), S("c")>>, L0)>>)>>)>>

XTriple(k) == <<XVals[((k - 1) % 3) + 1], XVals[((k - 1) \div 3) + 1], Str("1")>>

CompressInputs == [k \in 1..9 |-> CompressOf(XTriple(k)[1], XTriple(k)[2], XTriple(k)[3])]

\* Packets: p is a packet and the state of cell c; q is a packet whose data is
\* the state of cell k.
\* (def p (packet {:x 1})) (def c (cell p))
PacketAsState ==
    <<Def2("p", X(<<S("packet"), MapLit(<<Kw("x"), I(1)>>)>>)), Def2("c", X(<<S("cell"), S("p")>>))>>

\* (def k (cell {:x 1})) (def q (packet (get-state k)))
StateAsPacket ==
    <<DefCell("k", I(1)), Def2("q", X(<<S("packet"), X(<<S("get-state"), S("k")>>)>>))>>

\* (set-state cell :key v)
SetState(cell, key, v) == X(<<S("set-state"), S(cell), Kw(key), I(v)>>)

\* (ref #h), (ref (get name :hash))
RefLit(h) == X(<<S("ref"), n_hash(h, L0)>>)

RefOf(name) == X(<<S("ref"), X(<<S("get"), S(name), Kw("hash")>>)>>)

PacketInputs ==
    << PacketAsState, StateAsPacket, <<SetState("c", "hash", 5)>>,
       <<SetState("k", "x", 1)>>, <<SetState("k", "x", 2)>>,
       <<RefLit("h1")>>, <<RefLit("none")>>, <<RefOf("p")>>, <<RefOf("q")>>,
       <<X(<<S("packet"), I(3)>>)>>,
       <<X(<<S("compress"), X(<<S("merge"), n_list(<<S("k")>>, L0)>>)>>)>> >>

\* merge over the cells a, b, c and the number 7.
\* (def a (cell {:x 1 :y 2})) (def b (cell {:x 1 :z 3})) (def c (cell {:y 4 :x 5}))
MergeCellDefs ==
    <<Def2("a", X(<<S("cell"), MapLit(<<Kw("x"), I(1), Kw("y"), I(2)>>)>>)),
      Def2("b", X(<<S("cell"), MapLit(<<Kw("x"), I(1), Kw("z"), I(3)>>)>>)),
      Def2("c", X(<<S("cell"), MapLit(<<Kw("y"), I(4), Kw("x"), I(5)>>)>>))>>

Members == << <<S("a"), S("b")>>, <<S("b"), S("a"), S("c")>>, <<S("c"), I(7), S("a")>>, <<S("a"), S("a")>> >>

KeyLists == << <<Kw("x")>>, <<Kw("y"), Kw("z")>> >>

\* (merge [members]), (merge [members] :on [keys]), (merge [members] [keys])
MergeOf(ms) == X(<<S("merge"), n_list(ms, L0)>>)

MergeOn(ms, ks) == X(<<S("merge"), n_list(ms, L0), Kw("on"), n_list(ks, L0)>>)

MergeKeys(ms, ks) == X(<<S("merge"), n_list(ms, L0), n_list(ks, L0)>>)

MergeInputs ==
    <<MergeCellDefs>> \o [i \in 1..Len(Members) |-> <<MergeOf(Members[i])>>]
    \o [n \in 1..(Len(Members) * Len(KeyLists)) |->
           <<MergeOn(Members[((n - 1) % Len(Members)) + 1], KeyLists[((n - 1) \div Len(Members)) + 1])>>]
    \o [n \in 1..(Len(Members) * Len(KeyLists)) |->
           <<MergeKeys(Members[((n - 1) % Len(Members)) + 1], KeyLists[((n - 1) \div Len(Members)) + 1])>>]

\* mod and use.  (mod m (def x 1) (def _h 2) (def y (+ x 2)))
ModM ==
    X(<<S("mod"), S("m"), Def("x", 1), Def("_h", 2),
        Def2("y", X(<<S("+"), S("x"), I(2)>>))>>)

\* (use m n1 ... nk), (use m) with no names
Use(m, names) == X(<<S("use"), S(m)>> \o [i \in 1..Len(names) |-> S(names[i])])

\* (let [a 1] (use m) (+ x y))
LetUse == X(<<S("let"), V(<<S("a"), I(1)>>), Use("m", <<>>), X(<<S("+"), S("x"), S("y")>>)>>)

\* Module files a.ht = (use "b.ht") (def from-a 1) and b.ht = (use "a.ht")
\* (def from-b 2), and the top-level program (use "a.ht") from-a.
UseFile(path) == X(<<S("use"), Str(path)>>)

UseFileA == <<UseFile("a.ht"), S("from-a")>>

ModInputs ==
    << <<ModM>>, <<Use("m", <<>>)>>, <<Use("m", <<"y">>)>>, <<Use("m", <<"y", "x">>)>>,
       <<Use("m", <<"x", "nosuch", "y">>)>>, <<Use("m", <<"nosuch", "x">>)>>,
       <<Use("m", <<"y", "_h">>)>>, <<Def("x", 9)>>, <<Def("y", 8)>>, <<LetUse>>,
       UseFileA, <<UseFile("b.ht")>> >>

\* use on each kind of value.  (def v <expr>) for an Int, a Str, a List, a
\* Closure, a Cell, a Collective, a Packet, an Intent and a Map; then (use v).
KindExprs ==
    << I(5), Str("s"), n_list(<<I(1), I(2)>>, L0),
       X(<<S("fn"), V(<<S("p")>>), S("p")>>),
       X(<<S("cell"), MapLit(<<Kw("k"), I(1)>>)>>),
       X(<<S("merge"), n_list(<<X(<<S("cell"), MapLit(<<Kw("k"), I(1)>>)>>)>>, L0)>>),
       X(<<S("packet"), MapLit(<<Kw("k"), I(1)>>)>>),
       X(<<S("assert!"), I(1)>>),
       MapLit(<<Kw("k"), I(1)>>) >>

UseV == Use("v", <<>>)

UseKindInputs ==
    [i \in 1..Len(KindExprs) |-> <<Def2("v", KindExprs[i])>>] \o << <<UseV>> >>

\* Closure application.  ((fn [params] [names]) 1 .. n): the parameter lists
\* a b / a & r / & r / a b & r, the body the list of the names, n = 0..3.
ParamLists == << <<"a", "b">>, <<"a", "&", "r">>, <<"&", "r">>, <<"a", "b", "&", "r">> >>

ArgCounts == 0..3

NamesOf(params) == SelectSeq(params, LAMBDA p : p # "&")

CallFn(params, n) ==
    X(<< X(<<S("fn"), V([i \in 1..Len(params) |-> S(params[i])]),
             n_list([i \in 1..Len(NamesOf(params)) |-> S(NamesOf(params)[i])], L0)>>) >>
      \o [i \in 1..n |-> I(i)])

ArityInputs ==
    [k \in 1..(Len(ParamLists) * 4) |->
        <<CallFn(ParamLists[((k - 1) \div 4) + 1], (k - 1) % 4)>>]

\* Evaluation order.  Every part of a program reports its number to cell c
\* before giving its value: (do (emit c c k) v).
Mark(k, v) == Do(<<X(<<S("emit"), S("c"), S("c"), I(k)>>), v>>)

\* (fn [a b] (do (emit c c 4) (+ a b)))
AddFn == X(<<S("fn"), V(<<S("a"), S("b")>>), Mark(4, X(<<S("+"), S("a"), S("b")>>))>>)

\* (head arg1 arg2), each part marked 1, 2, 3
CallOf(head, arg1, arg2) == X(<<Mark(1, head), Mark(2, arg1), Mark(3, arg2)>>)

OrderPrograms ==
    << CallOf(AddFn, I(10), I(20)), CallOf(S("nosuch"), I(10), I(20)),
       CallOf(AddFn, S("nosuch"), I(20)), CallOf(AddFn, I(10), S("nosuch")),
       CallOf(I(5), I(10), I(20)),
       X(<<S("+"), Mark(1, I(1)), Mark(2, I(2))>>),
       n_list(<<Mark(1, I(10)), Mark(2, I(20)), Mark(3, I(30))>>, L0),
       n_list(<<Mark(1, I(10)), Mark(2, S("nosuch")), Mark(3, I(30))>>, L0),
       MapLit(<<Mark(1, Kw("a")), Mark(2, I(10)), Mark(3, Kw("b")), Mark(4, I(20))>>),
       MapLit(<<Mark(1, Kw("a")), Mark(2, I(10)), Mark(3, S("nosuch")), Mark(4, I(20))>>),
       MapLit(<<Mark(1, Kw("a")), Mark(2, I(10)), Mark(3, Kw("b"))>>) >>

\* Each program runs after (def c (cell {:x 1})).
OrderInputs == [i \in 1..Len(OrderPrograms) |-> <<DefCell("c", I(1)), OrderPrograms[i]>>]

\* Special-form names bound by the user.  (fn [& r] 99) is the closure bound
\* to the name; a call of it would give 99.
K99 == X(<<S("fn"), V(<<S("&"), S("r")>>), I(99)>>)

SpecialNames ==
    <<"def", "let", "fn", "if", "do", "match", "loop", "recur", "quote", "eval",
      "macro", "try", "catch", "throw", "|>", "mod", "use", "cell", "emit", "recv",
      "merge", "compress", "ref", "packet", "assert!", "ask?", "request!",
      "suggest~", "accept+", "reject-">>

\* A call form for every name of the special-form table, and its value.
FormOf(name) ==
    CASE name = "def" -> X(<<S("def"), S("w"), I(1)>>)
      [] name = "let" -> X(<<S("let"), V(<<S("w"), I(1)>>), S("w")>>)
      [] name = "fn" -> X(<<X(<<S("fn"), V(<<S("w")>>), S("w")>>), I(3)>>)
      [] name = "if" -> X(<<S("if"), n_bool(FALSE, L0), S("nosuch"), I(2)>>)
      [] name = "do" -> X(<<S("do"), I(1), I(2)>>)
      [] name = "match" -> X(<<S("match"), I(1), I(1), I(2)>>)
      [] name = "loop" -> X(<<S("loop"), V(<<S("w"), I(1)>>), S("w")>>)
      [] name = "recur" -> X(<<S("loop"), V(<<S("i"), I(0)>>), X(<<S("if"), X(<<S("<"), S("i"), I(1)>>), X(<<S("recur"), I(1)>>), S("i")>>)>>)
      [] name = "quote" -> X(<<S("quote"), S("nosuch")>>)
      [] name = "eval" -> X(<<S("eval"), I(5)>>)
      [] name = "macro" -> X(<<S("do"), X(<<S("macro"), X(<<S("w"), S("a")>>), S("a")>>), I(4)>>)
      [] name = "try" -> X(<<S("try"), I(1), X(<<S("catch"), S("e"), I(2)>>)>>)
      [] name = "catch" -> X(<<S("catch"), S("e"), I(2)>>)
      [] name = "throw" -> X(<<S("try"), X(<<S("throw"), I(7)>>), X(<<S("catch"), S("e"), S("e")>>)>>)
      [] name = "|>" -> X(<<S("|>"), I(5)>>)
      [] name = "mod" -> X(<<S("get"), X(<<S("mod"), S("w"), X(<<S("def"), S("a"), I(5)>>)>>), Str("a")>>)
      [] name = "use" -> X(<<S("do"), X(<<S("mod"), S("w"), X(<<S("def"), S("a"), I(5)>>)>>), X(<<S("use"), S("w"), S("a")>>), S("a")>>)
      [] name = "cell" -> X(<<S("get"), X(<<S("get-state"), X(<<S("cell"), MapLit(<<Kw("x"), I(1)>>)>>)>>), Str("x")>>)
      [] name = "emit" -> X(<<S("emit"), I(1), I(2), I(3)>>)
      [] name = "recv" -> X(<<S("recv"), X(<<S("cell"), MapLit(<<Kw("x"), I(1)>>)>>)>>)
      [] name = "merge" -> X(<<S("get"), X(<<S("merge"), V(<<>>)>>), Str("__type__")>>)
      [] name = "compress" -> X(<<S("get"), X(<<S("compress"), I(1)>>), Str("fail")>>)
      [] name = "ref" -> X(<<S("ref"), I(1)>>)
      [] name = "packet" -> X(<<S("get"), X(<<S("packet"), I(1)>>), Str("data")>>)
      [] name = "assert!" -> X(<<S("get"), X(<<S("assert!"), I(1)>>), Str("intent")>>)
      [] name = "ask?" -> X(<<S("get"), X(<<S("ask?"), I(1)>>), Str("intent")>>)
      [] name = "request!" -> X(<<S("get"), X(<<S("request!"), I(1)>>), Str("intent")>>)
      [] name = "suggest~" -> X(<<S("get"), X(<<S("suggest~"), I(1)>>), Str("intent")>>)
      [] name = "accept+" -> X(<<S("get"), X(<<S("accept+"), I(1)>>), Str("intent")>>)
      [] name = "reject-" -> X(<<S("get"), X(<<S("reject-"), I(1)>>), Str("intent")>>)

ValueOf(name) ==
    CASE name = "def" -> IntV(1)
      [] name = "let" -> IntV(1)
      [] name = "fn" -> IntV(3)
      [] name = "if" -> IntV(2)
      [] name = "do" -> IntV(2)
      [] name = "match" -> IntV(2)
      [] name = "loop" -> IntV(1)
      [] name = "recur" -> IntV(1)
      [] name = "quote" -> <<"SYM", "nosuch">>
      [] name = "eval" -> IntV(5)
      [] name = "macro" -> IntV(4)
      [] name = "try" -> IntV(1)
      [] name = "catch" -> None
      [] name = "throw" -> IntV(7)
      [] name = "|>" -> IntV(5)
      [] name = "mod" -> IntV(5)
      [] name = "use" -> IntV(5)
      [] name = "cell" -> IntV(1)
      [] name = "emit" -> IntV(3)
      [] name = "recv" -> None
      [] name = "merge" -> StrV("collective")
      [] name = "compress" -> StrV("not-collective")
      [] name = "ref" -> None
      [] name = "packet" -> IntV(1)
      [] name = "assert!" -> StrV("assert")
      [] name = "ask?" -> StrV("ask")
      [] name = "request!" -> StrV("request")
      [] name = "suggest~" -> StrV("suggest")
      [] name = "accept+" -> StrV("accept")
      [] name = "reject-" -> StrV("reject")

\* [(let [z 0] (def name K99) form) (let [name K99] form)
\*  ((fn [name] form) K99) (let [name K99] ((do name) 1))]
ShadowCalls(name) ==
    n_list(<< X(<<S("let"), V(<<S("z"), I(0)>>), Def2(name, K99), FormOf(name)>>),
              X(<<S("let"), V(<<S(name), K99>>), FormOf(name)>>),
              X(<<X(<<S("fn"), V(<<S(name)>>), FormOf(name)>>), K99>>),
              X(<<S("let"), V(<<S(name), K99>>), X(<<Do(<<S(name)>>), I(1)>>)>>) >>, L0)

\* The names of the table taken five at a time: the g-th five names, and the
\* list of the calls for them.
NamesOfGroup(g) == SubSeq(SpecialNames, 5 * (g - 1) + 1, 5 * g)

Group(g) == n_list([k \in 1..Len(NamesOfGroup(g)) |-> ShadowCalls(NamesOfGroup(g)[k])], L0)

ShadowInputs ==
    [g \in 1..(Len(SpecialNames) \div 5) |-> <<Group(g)>>]
        \o << <<Def2("if", K99)>>, <<Def2("do", K99)>>, <<Def2("cell", K99)>> >>

\* recur with any number of values.
\* (loop [x 1 y 2 k 0] (def k (+ k 1)) (if (< k 2) (recur args...) [x y k]))
RecurLoop(args) ==
    X(<<S("loop"), V(<<S("x"), I(1), S("y"), I(2), S("k"), I(0)>>),
        Def2("k", X(<<S("+"), S("k"), I(1)>>)),
        X(<<S("if"), X(<<S("<"), S("k"), I(2)>>), X(<<S("recur")>> \o args),
            n_list(<<S("x"), S("y"), S("k")>>, L0)>>)>>)

\* The argument lists of recur: none, 10, 10 20, 10 20 30, 10 20 30 40, y x
RecurArgs ==
    << <<>>, <<I(10)>>, <<I(10), I(20)>>, <<I(10), I(20), I(30)>>,
       <<I(10), I(20), I(30), I(40)>>, <<S("y"), S("x")>> >>

RecurInputs ==
    [i \in 1..Len(RecurArgs) |-> <<RecurLoop(RecurArgs[i])>>] \o << <<Def("x", 5)>> >>

Scenarios ==
    <<"closure", "def", "let", "loop", "try", "fail", "sym", "macro", "macrocall",
      "match", "if", "inbox", "emit", "compress",
      "packet", "merge",
      "mod",
      "usekind",
      "arity",
      "order",
      "shadow",
      "recur">>

Inputs(s) ==
    CASE s = "closure" -> ClosureInputs
      [] s = "def" -> DefInputs
      [] s = "let" -> LetInputs
      [] s = "loop" -> LoopInputs
      [] s = "try" -> TryInputs
      [] s = "fail" -> FailInputs
      [] s = "sym" -> SymInputs
      [] s = "macro" -> MacroInputs
      [] s = "macrocall" -> MacroCallInputs
      [] s = "match" -> MatchInputs
      [] s = "if" -> IfInputs
      [] s = "inbox" -> InboxInputs
      [] s = "emit" -> EmitInputs
      [] s = "compress" -> CompressInputs
      [] s = "packet" -> PacketInputs
      [] s = "merge" -> MergeInputs
      [] s = "mod" -> ModInputs
      [] s = "usekind" -> UseKindInputs
      [] s = "arity" -> ArityInputs
      [] s = "order" -> OrderInputs
      [] s = "shadow" -> ShadowInputs
      [] s = "recur" -> RecurInputs

\* ---- The host: one REPL session over one environment ----
InitStore == [frames |-> << [parent |-> 0, b |-> default_env] >>,
              heap |-> <<>>, packets |-> <<>>, digests |-> <<>>, log |-> <<>>,
              depth |-> 0, iters |-> <<>>]

NoInput == [input |-> <<>>, ok |-> TRUE, v |-> None, pre |-> InitStore]

InitScn(s) ==
    /\ scn = s
    /\ store = InitStore
    /\ last = NoInput
    /\ ninputs = 0

Init == \E i \in 1..Len(Scenarios) : InitScn(Scenarios[i])

\* One balanced input: run_source parses it and run_program evaluates its forms
\* in the session's environment; a failure is reported and the session goes on.
Repl(input) ==
    /\ ninputs < MaxInputs
    /\ \E r \in {run_program(input, 1, [store EXCEPT !.iters = <<>>])} :
          /\ store' = r.st
          /\ last' = [input |-> input, ok |-> r.ok, v |-> r.v, pre |-> store]
    /\ ninputs' = ninputs + 1
    /\ UNCHANGED scn

\* :reset makes a new default environment; the dict objects and the
\* module-level packet table stay.
Reset ==
    /\ ninputs < MaxInputs
    /\ store' = [InitStore EXCEPT !.heap = store.heap, !.packets = store.packets,
                                  !.digests = store.digests, !.log = store.log]
    /\ last' = [NoInput EXCEPT !.pre = store]
    /\ ninputs' = ninputs + 1
    /\ UNCHANGED scn

ReplInput == \E i \in 1..Len(Inputs(scn)) : Repl(Inputs(scn)[i])

Next == ReplInput \/ Reset

Spec == Init /\ [][Next]_vars

SpecClosure == InitScn("closure") /\ [][Next]_vars

SpecDef == InitScn("def") /\ [][Next]_vars

SpecLet == InitScn("let") /\ [][Next]_vars

SpecLoop == InitScn("loop") /\ [][Next]_vars

SpecTry == InitScn("try") /\ [][Next]_vars

SpecFail == InitScn("fail") /\ [][Next]_vars

SpecSym == InitScn("sym") /\ [][Next]_vars

SpecMacro == InitScn("macro") /\ [][Next]_vars

SpecMacroCall == InitScn("macrocall") /\ [][Next]_vars

\* ---- quote: the parsed form goes through _ast_to_data, eval's argument
\* through _data_to_ast ----
\* The leaves the parser builds, sequences of at most MaxLen of them, and the
\* nodes one and two levels above them.
Leaves ==
    {n_int(1, L0), n_float(2, L0), n_str("a", L0), n_str(":a", L0), n_bool(TRUE, L0),
     n_null(L0), n_sym("x", L0), n_kw("k", L0), n_hash("b", L0)}

SeqsOf(set) == UNION {[1..n -> set] : n \in 0..MaxLen}

PairsOf(set) == {<<>>} \cup {<<k, v>> : k \in set, v \in set}

NodesOver(set) ==
    {n_sexpr(els, L0) : els \in SeqsOf(set)} \cup {n_list(els, L0) : els \in SeqsOf(set)}
    \cup {n_map(els, L0) : els \in PairsOf(set)} \cup {n_quote(n, L0) : n \in set}

Nodes == Leaves \cup NodesOver(Leaves) \cup {n_quote(n, L0) : n \in NodesOver(Leaves)}

\* (quote n) followed by _data_to_ast of the quoted data, as eval does.
RoundTrip ==
    /\ \E n \in Nodes :
          last' = [input |-> <<n>>, ok |-> TRUE,
                   v |-> _data_to_ast(_ast_to_data(n)), pre |-> store]
    /\ ninputs' = 1
    /\ UNCHANGED <<scn, store>>

SpecMatch == InitScn("match") /\ [][Next]_vars

SpecIf == InitScn("if") /\ [][Next]_vars

SpecInbox == InitScn("inbox") /\ [][Next]_vars

SpecEmit == InitScn("emit") /\ [][Next]_vars

SpecCompress == InitScn("compress") /\ [][Next]_vars

SpecPacket == InitScn("packet") /\ [][Next]_vars

SpecMerge == InitScn("merge") /\ [][Next]_vars

SpecMod == InitScn("mod") /\ [][Next]_vars

SpecUseKind == InitScn("usekind") /\ [][Next]_vars

\* ---- parse on token sequences ----
\* The token sequences the lexer can produce from at most MaxToks tokens of
\* these kinds, on one line, closed by the end-of-input token.
TokenKinds ==
    { <<"INT", 1>>, <<"KW", "k">>, <<"PIPE", "|>">>,
      <<"LPAREN", "(">>, <<"RPAREN", ")">>, <<"LBRACK", "[">>, <<"RBRACK", "]">>,
      <<"LBRACE", "{">>, <<"RBRACE", "}">>,
      <<"QUOTE", "'">>, <<"UNQUOTE", "~">>, <<"SPLICE", "~@">> }

Toks(kinds) ==
    [i \in 1..Len(kinds) |-> <<kinds[i][1], kinds[i][2], 1, i>>]
        \o << <<"EOF", None, 1, Len(kinds) + 1>> >>

TokenSeqs == {Toks(ks) : ks \in UNION {[1..n -> TokenKinds] : n \in 0..MaxToks}}

\* Programs with map literals: {:a 1}  {:a}  {:a 1 :b}  {:a 1 (def z 5)}
\* {:a (def z 5)}  [{:a}]  {(def z 5)}  {{:a} 1}
TDef == << <<"LPAREN", "(">>, <<"SYM", "def">>, <<"SYM", "z">>, <<"INT", 5>>, <<"RPAREN", ")">> >>

TLb == <<"LBRACE", "{">>

TRb == <<"RBRACE", "}">>

TKw(name) == <<"KW", name>>

TInt(n) == <<"INT", n>>

MapOddDef == Toks(<<TLb, TKw("a"), TInt(1)>> \o TDef \o <<TRb>>)

MapEvenDef == Toks(<<TLb, TKw("a")>> \o TDef \o <<TRb>>)

MapPrograms ==
    << Toks(<<TLb, TKw("a"), TInt(1), TRb>>), Toks(<<TLb, TKw("a"), TRb>>),
       Toks(<<TLb, TKw("a"), TInt(1), TKw("b"), TRb>>), MapOddDef, MapEvenDef,
       Toks(<< <<"LBRACK", "[">>, TLb, TKw("a"), TRb, <<"RBRACK", "]">> >>),
       Toks(<<TLb>> \o TDef \o <<TRb>>),
       Toks(<<TLb, TLb, TKw("a"), TRb, TInt(1), TRb>>) >>

\* parse on one token sequence.
Parse ==
    /\ ninputs = 0
    /\ \E tokens \in TokenSeqs : \E r \in {parse(tokens)} :
          last' = [input |-> tokens, ok |-> r.ok, v |-> r.v, pos |-> r.pos, pre |-> store]
    /\ ninputs' = 1
    /\ UNCHANGED <<scn, store>>

\* parse, then run_program on the nodes, as run_source does.
ParseRun ==
    /\ ninputs = 0
    /\ \E i \in 1..Len(MapPrograms) : \E p \in {parse(MapPrograms[i])} :
          IF ~p.ok
          THEN /\ last' = [input |-> MapPrograms[i], ok |-> FALSE, v |-> p.v, pre |-> store]
               /\ store' = store
          ELSE \E r \in {run_program(p.v, 1, store)} :
               /\ last' = [input |-> MapPrograms[i], ok |-> r.ok, v |-> r.v, pre |-> store]
               /\ store' = r.st
    /\ ninputs' = 1
    /\ UNCHANGED scn

SpecParse == InitScn("parse") /\ [][Parse \/ ParseRun]_vars

SpecArity == InitScn("arity") /\ [][Next]_vars

SpecOrder == InitScn("order") /\ [][Next]_vars

SpecShadow == InitScn("shadow") /\ [][Next]_vars

SpecRecur == InitScn("recur") /\ [][Next]_vars

SpecRoundTrip == InitScn("roundtrip") /\ [][RoundTrip]_vars


\* ---- Observations on the last input ----
Bound(st, name) == DictHas(Env(st, 1), StrV(name))

Global(st, name) == DictGet(Env(st, 1), StrV(name))

\* The frames the last input created.
NewFrames == (Len(last.pre.frames) + 1)..Len(store.frames)

\* The frames that existed before the last input are as they were.
OldFramesUnchanged == SubSeq(store.frames, 1, Len(last.pre.frames)) = last.pre.frames

IsApplyAdd(inp, x) ==
    inp = <<CallAdd(x)>> \/ inp = <<LetCallAdd(7, x)>> \/ inp = <<FnCallAdd(9, x)>>

\* C1: a closure returned by (make-adder k) applied to x returns x + k whatever
\* the global frame or the caller's frame binds n to; the application makes
\* exactly one new frame whose parent is the captured frame, binding only x,
\* and leaves the captured frame as it was.
C1_ClosureCapture ==
    \A x \in {1, 10} :
        (IsApplyAdd(last.input, x) /\ Bound(last.pre, "add")) =>
            LET f == Global(last.pre, "add")
                k == DictGet(Env(last.pre, f[4]), StrV("n"))[2]
            IN  /\ last.ok
                /\ last.v = IntV(x + k)
                /\ Cardinality({e \in NewFrames : store.frames[e].parent = f[4]}) = 1
                /\ \A e \in NewFrames : store.frames[e].parent = f[4] =>
                       Env(store, e) = << <<StrV("x"), IntV(x)>> >>
                /\ OldFramesUnchanged

\* n was rebound globally to 100 and in the caller's let to 7; add captured 5.
C1_Witness ==
    /\ last.input = <<LetCallAdd(7, 10)>>
    /\ Bound(last.pre, "add")
    /\ Bound(last.pre, "n")
    /\ Global(last.pre, "n") = IntV(100)
    /\ last.ok
    /\ last.v = IntV(15)


\* The last input created exactly one frame, a child of the global frame,
\* holding the bindings d.
OneNewFrame(d) ==
    /\ Len(store.frames) = Len(last.pre.frames) + 1
    /\ store.frames[Len(store.frames)] = [parent |-> 1, b |-> d]

XIs(v) == <<StrV("x"), IntV(v)>>

\* C2: def binds in the innermost frame only.  Inside a let, function, loop or
\* mod frame it leaves every frame that existed before as it was (for mod, but
\* for the module binding m itself) and the new frame holds the binding; in
\* nested lets the outer let's binding of the same name stays.  At top level
\* it changes the global frame in that one binding.
C2_DefInnermost ==
    /\ last.input = <<LetDef>> =>
          last.ok /\ OldFramesUnchanged
          /\ OneNewFrame(<< <<StrV("a"), IntV(1)>>, XIs(9) >>)
    /\ last.input = <<LetDefFn>> =>
          last.ok /\ OldFramesUnchanged
          /\ OneNewFrame(<< <<StrV("a"), IntV(1)>>,
                 <<StrV("x"), <<"FN", <<"p">>, <<S("p")>>, Len(store.frames)>>>> >>)
    /\ last.input = <<FnDef>> =>
          last.ok /\ OldFramesUnchanged /\ OneNewFrame(<< XIs(7) >>)
    /\ last.input = <<LoopDef>> =>
          last.ok /\ OldFramesUnchanged
          /\ OneNewFrame(<< <<StrV("i"), IntV(0)>>, XIs(8) >>)
    /\ last.input = <<ModDef>> =>
          /\ last.ok
          /\ Env(store, 1) =
                DictSet(Env(last.pre, 1), StrV("m"), <<"DICT", Len(store.heap)>>)
          /\ store.heap = Append(last.pre.heap, << XIs(5) >>)
          /\ SubSeq(store.frames, 2, Len(last.pre.frames)) = Tail(last.pre.frames)
          /\ OneNewFrame(<< XIs(5) >>)
    /\ last.input = <<NestedLetDef>> =>
          /\ last.ok /\ OldFramesUnchanged
          /\ Len(store.frames) = Len(last.pre.frames) + 2
          /\ store.frames[Len(store.frames) - 1] = [parent |-> 1, b |-> << XIs(3) >>]
          /\ store.frames[Len(store.frames)] =
                [parent |-> Len(store.frames) - 1,
                 b |-> << <<StrV("y"), IntV(4)>>, XIs(6) >>]
    /\ \A v \in {1, 2} : last.input = <<Def("x", v)>> =>
          /\ last.ok
          /\ store.frames = [last.pre.frames EXCEPT ![1].b = DictSet(@, StrV("x"), IntV(v))]

\* x was bound globally to 2 when (let [a 1] (def x 9)) ran, and still is.
C2_Witness ==
    /\ last.input = <<LetDef>>
    /\ Bound(last.pre, "x")
    /\ Global(last.pre, "x") = IntV(2)
    /\ Global(store, "x") = IntV(2)
    /\ DictGet(Env(store, Len(store.frames)), StrV("x")) = IntV(9)

\* C3: let makes one child frame, evaluates each initializer in it after the
\* earlier pairs are bound there, and evaluates the body in that same frame:
\* (let [a v b (* a 2)] b) is 2v whatever a and b are bound to outside.
C3_LetSequential ==
    /\ \A v \in {3, 5} : last.input = <<LetSeq(v)>> =>
          /\ last.ok /\ last.v = IntV(2 * v)
          /\ OldFramesUnchanged
          /\ OneNewFrame(<< <<StrV("a"), IntV(v)>>, <<StrV("b"), IntV(2 * v)>> >>)
    /\ last.input = <<LetSeq3>> =>
          /\ last.ok /\ last.v = IntV(3)
          /\ OldFramesUnchanged
          /\ OneNewFrame(<< <<StrV("a"), IntV(1)>>, <<StrV("b"), IntV(2)>>,
                            <<StrV("c"), IntV(3)>>, <<StrV("r"), IntV(3)>> >>)
    /\ last.input = <<LetShadow>> =>
          /\ last.ok /\ last.v = IntV(8)
          /\ OldFramesUnchanged
          /\ OneNewFrame(<< <<StrV("a"), IntV(8)>> >>)

\* a is 100 in the global frame and (let [a 5 b (* a 2)] b) is 10.
C3_Witness ==
    /\ last.input = <<LetSeq(5)>>
    /\ Bound(last.pre, "a")
    /\ Global(last.pre, "a") = IntV(100)
    /\ last.ok
    /\ last.v = IntV(10)


\* f is bound to the function of (def (f x) (recur x)).
FIsRecurFn(st) ==
    Bound(st, "f") /\ Global(st, "f")[1] = "FN" /\ Global(st, "f")[3] = <<DefRecurFn[2][3]>>

\* C4: a recur is caught only by the loop it is written in.  The recur in the
\* body of f, which contains no loop, is not caught by the loop that calls f:
\* the signal leaves that loop; and in nested loops the inner recur rebinds
\* only the inner loop's name.
C4_RecurLexical ==
    /\ (last.input = <<LoopCallsF>> /\ FIsRecurFn(last.pre)) =>
          ~last.ok /\ last.v.exc = "_Recur"
    /\ last.input = <<NestedLoops>> =>
          /\ last.ok /\ last.v = IntV(2)
          /\ OldFramesUnchanged
          /\ Len(store.frames) = Len(last.pre.frames) + 3
          /\ LET o == Len(last.pre.frames) + 1
             IN  /\ store.frames[o] = [parent |-> 1, b |-> << <<StrV("i"), IntV(2)>> >>]
                 /\ \A e \in {o + 1, o + 2} :
                       store.frames[e] = [parent |-> o, b |-> << <<StrV("j"), IntV(1)>> >>]

\* The loop that called f caught f's recur, rebound i to 1 and returned it.
C4_Witness ==
    /\ last.input = <<LoopCallsF>>
    /\ FIsRecurFn(last.pre)
    /\ last.ok
    /\ last.v = IntV(1)
    /\ Env(store, Len(store.frames) - 1) = << <<StrV("i"), IntV(1)>> >>

\* C5: loop binds its initial names one after the other, like let:
\* (loop [a 1 b (+ a 1)] b) is 2, a bound outside the loop or not.
C5_LoopSequential ==
    last.input = <<LoopSeq>> => last.ok /\ last.v = IntV(2)

\* With a bound nowhere outside the loop the initializer of b fails on a.
C5_Witness ==
    /\ last.input = <<LoopSeq>>
    /\ ~Bound(last.pre, "a")
    /\ ~last.ok
    /\ last.v.exc = "NameError"
    /\ last.v.arg = "a"

\* 0 + 1 + ... + (n - 1)
RECURSIVE SumBelow(_)
SumBelow(n) == IF n = 0 THEN 0 ELSE (n - 1) + SumBelow(n - 1)

\* C6: for n in 0..MaxN the sum loop returns 0 + ... + (n-1) after n + 1
\* executions of its body, all in the one loop frame the input created and all
\* started with the same number of pending evaluations (one: the loop form).
C6_LoopConstantDepth ==
    \A n \in 0..MaxN : last.input = <<SumLoop(n)>> =>
        /\ last.ok /\ last.v = IntV(SumBelow(n))
        /\ OldFramesUnchanged
        /\ OneNewFrame(<< <<StrV("i"), IntV(n)>>, <<StrV("acc"), IntV(SumBelow(n))>> >>)
        /\ Len(store.iters) = n + 1
        /\ \A k \in 1..Len(store.iters) : store.iters[k] = <<Len(store.frames), 1>>
        /\ store.depth = 0

C6_Witness ==
    /\ last.input = <<SumLoop(MaxN)>>
    /\ last.ok
    /\ last.v = IntV(SumBelow(MaxN))
    /\ Len(store.iters) = MaxN + 1


\* The last input left the store's frames as they were.
NoNewFrame == store.frames = last.pre.frames

EIs(v) == <<StrV("e"), IntV(v)>>

\* boom is bound to the function of (def (boom v) (throw v)).
BoomIsThrower(st) ==
    Bound(st, "boom") /\ Global(st, "boom")[1] = "FN"

\* C7: try intercepts exactly thrown values.  A (throw v) in the body, also in
\* a function the body calls, reaches the nearest running try that has a catch
\* clause: v is bound to the catch name in a new child frame, the handler runs
\* there and its last value is returned.  An undefined symbol, a call of a
\* non-function and a recur signal pass the try with the handler not run; a
\* body that completes gives its value with the handler not run.
C7_TryCatchesThrow ==
    /\ \A v \in {1, 5} : last.input = <<TryThrow(v)>> =>
          /\ last.ok /\ last.v = IntV(v + 1)
          /\ OldFramesUnchanged
          /\ OneNewFrame(<< EIs(v), <<StrV("h"), IntV(v)>> >>)
    /\ (last.input = <<TryCall>> /\ BoomIsThrower(last.pre)) =>
          /\ last.ok /\ last.v = IntV(4)
          /\ OldFramesUnchanged
          /\ Len(store.frames) = Len(last.pre.frames) + 2
          /\ store.frames[Len(store.frames)] = [parent |-> 1, b |-> << EIs(3) >>]
    /\ last.input = <<TryNearest>> =>
          /\ last.ok /\ last.v = IntV(11)
          /\ OldFramesUnchanged /\ OneNewFrame(<< EIs(1) >>)
    /\ last.input = <<TryRethrow>> =>
          /\ last.ok /\ last.v = IntV(111)
          /\ OldFramesUnchanged
          /\ Len(store.frames) = Len(last.pre.frames) + 2
          /\ store.frames[Len(store.frames) - 1] = [parent |-> 1, b |-> << EIs(1) >>]
          /\ store.frames[Len(store.frames)] = [parent |-> 1, b |-> << EIs(11) >>]
    /\ last.input = <<TryNoCatchInside>> =>
          /\ last.ok /\ last.v = IntV(11)
          /\ OldFramesUnchanged /\ OneNewFrame(<< EIs(1) >>)
    /\ last.input = <<TryUndefined>> =>
          ~last.ok /\ last.v.exc = "NameError" /\ last.v.arg = "nosuch" /\ NoNewFrame
    /\ last.input = <<TryNotCallable>> =>
          ~last.ok /\ last.v.exc = "RuntimeError" /\ NoNewFrame
    /\ last.input = <<TryRecur>> =>
          ~last.ok /\ last.v.exc = "_Recur" /\ NoNewFrame
    /\ last.input = <<LoopTryRecur>> =>
          /\ last.ok /\ last.v = IntV(1)
          /\ OldFramesUnchanged /\ OneNewFrame(<< <<StrV("i"), IntV(1)>> >>)
    /\ last.input = <<TryOk>> =>
          last.ok /\ last.v = IntV(7) /\ NoNewFrame

\* A throw inside the called function boom was caught by the try around the call.
C7_Witness ==
    /\ last.input = <<TryCall>>
    /\ BoomIsThrower(last.pre)
    /\ last.ok
    /\ last.v = IntV(4)
    /\ Env(store, Len(store.frames)) = << EIs(3) >>


\* Every binding of every frame of st has in the current store the value it
\* has in st.
BindingsKept(st) ==
    \A e \in 1..Len(st.frames) :
        \A k \in 1..Len(st.frames[e].b) :
            /\ k <= Len(store.frames[e].b)
            /\ store.frames[e].b[k] = st.frames[e].b[k]

\* C8: a failing top-level form never corrupts bindings made before it.  After
\* an input of one form that failed, every binding that existed when the form
\* started has its value of then; after (def x 1) followed in the same input
\* by a failing form, x is 1.
C8_FailureKeepsBindings ==
    /\ (~last.ok /\ Len(last.input) = 1) => BindingsKept(last.pre)
    /\ last.input = <<Def("x", 1), DoDefFail>> =>
          ~last.ok /\ Global(store, "x") = IntV(1)

\* x was 1; (do (def x 7) (nosuch)) failed on nosuch and x is 7.
C8_Witness ==
    /\ last.input = <<DoDefFail>>
    /\ Bound(last.pre, "x")
    /\ Global(last.pre, "x") = IntV(1)
    /\ ~last.ok
    /\ last.v.exc = "NameError"
    /\ Global(store, "x") = IntV(7)

\* The last input failed as an undefined symbol carrying name and position.
UndefinedSymbolAt(name, line, col) ==
    ~last.ok /\ last.v.exc = "NameError" /\ last.v.arg = name /\ last.v.loc = <<line, col>>

\* C9: a symbol evaluates to the value bound in the nearest frame of the chain
\* that binds it (a child's binding shadows the global one); bound in no
\* frame of the chain, it fails as an undefined symbol that carries the name
\* and the line and column of the symbol.
C9_SymbolLookup ==
    /\ last.input = <<LetX>> => last.ok /\ last.v = IntV(2)
    /\ last.input = <<LetLetX>> => last.ok /\ last.v = IntV(2)
    /\ last.input = <<FnX>> => last.ok /\ last.v = IntV(5)
    /\ (last.input = <<SymAt("x", 1, 1)>> /\ Bound(last.pre, "x")) =>
          last.ok /\ last.v = Global(last.pre, "x")
    /\ (last.input = <<LetYX>> /\ Bound(last.pre, "x")) =>
          last.ok /\ last.v = Global(last.pre, "x")
    /\ (last.input = <<SymAt("x", 1, 1)>> /\ ~Bound(last.pre, "x")) =>
          UndefinedSymbolAt("x", 1, 1)
    /\ (last.input = <<LetYX>> /\ ~Bound(last.pre, "x")) =>
          UndefinedSymbolAt("x", 1, 12)
    /\ last.input = <<SymAt("undefined_var", 1, 1)>> =>
          UndefinedSymbolAt("undefined_var", 1, 1)
    /\ last.input = <<SymAt("undefined_var", 2, 5)>> =>
          UndefinedSymbolAt("undefined_var", 2, 5)

\* undefined_var at line 2, column 5 failed with the name and no position.
C9_Witness ==
    /\ last.input = <<SymAt("undefined_var", 2, 5)>>
    /\ ~last.ok
    /\ last.v.exc = "NameError"
    /\ last.v.arg = "undefined_var"
    /\ last.v.loc = <<>>

IsMacro(st, name) == Bound(st, name) /\ Global(st, name)[1] = "MACRO"

\* unless is bound to the macro of MacroUnless.
UnlessIsMacro(st) ==
    /\ Bound(st, "unless")
    /\ Global(st, "unless") = <<"MACRO", <<"cond", "body">>, MacroUnless[2][3], 1>>

\* C10: a call of a macro puts the unevaluated argument forms in place of the
\* parameters in the template and evaluates the result: with unless defined,
\* (unless F 42) is 42, (unless T 42) is Null, and (unless T (nosuch)) is Null
\* because (nosuch) is never evaluated; (square-sum 3 4) is 49 and, with
\* x = 10, (show-and-return (+ x 5)) is 15.
C10_MacroSubstitution ==
    /\ (last.input = <<Unless(FALSE, I(42))>> /\ UnlessIsMacro(last.pre)) =>
          last.ok /\ last.v = IntV(42)
    /\ (last.input = <<Unless(TRUE, I(42))>> /\ UnlessIsMacro(last.pre)) =>
          last.ok /\ last.v = None
    /\ (last.input = <<Unless(TRUE, X(<<S("nosuch")>>))>> /\ UnlessIsMacro(last.pre)) =>
          last.ok /\ last.v = None
    /\ last.input = <<MacroUnless, Unless(FALSE, I(42))>> =>
          last.ok /\ last.v = IntV(42)
    /\ (last.input = <<SquareSumCall>> /\ IsMacro(last.pre, "square-sum")) =>
          last.ok /\ last.v = IntV(49)
    /\ (last.input = <<ShowCall>> /\ IsMacro(last.pre, "show-and-return")
            /\ Bound(last.pre, "x")) =>
          last.ok /\ last.v = IntV(15)

\* With unless defined, (unless F 42) failed: the macro value was applied.
C10_Witness ==
    /\ last.input = <<Unless(FALSE, I(42))>>
    /\ UnlessIsMacro(last.pre)
    /\ ~last.ok
    /\ last.v.exc = "RuntimeError"


\* The last input failed because a macro value was applied.
MacroRejected ==
    ~last.ok /\ last.v.exc = "RuntimeError" /\ last.v.arg = "Macros cannot be applied as values"

RECURSIVE StripLoc(_)
StripLoc(n) ==
    CASE n[1] = "NULL" -> <<"NULL">>
      [] n[1] \in {"LIST", "SEXPR", "MAP"} -> <<n[1], [i \in 1..Len(n[2]) |-> StripLoc(n[2][i])]>>
      [] n[1] = "QUOTE" -> <<"QUOTE", StripLoc(n[2])>>
      [] OTHER -> <<n[1], n[2]>>

\* C12: for every node n without Unquote/Splice, _data_to_ast(_ast_to_data(n))
\* is structurally equal to n up to location tags.
C12_RoundTrip ==
    (scn = "roundtrip" /\ last.input # <<>>) => last.v = StripLoc(last.input[1])

\* The empty call form () comes back as the empty list literal [].
C12_Witness ==
    /\ scn = "roundtrip"
    /\ last.input = <<n_sexpr(<<>>, L0)>>
    /\ last.v = <<"LIST", <<>>>>
\* ---- C13: match ----
\* The input ran to a value with the scrutinee evaluated once (s counted up by
\* one) and exactly the parts of the trace evaluated, in that order.
Matched(v, trace) ==
    /\ last.ok /\ last.v = v
    /\ Global(store, "s") = IntV(Global(last.pre, "s")[2] + 1)
    /\ Global(store, "tr") = IntV(trace)

\* C13: match evaluates the scrutinee once, then tests the pairs in order: _
\* matches unconditionally, any other pattern is evaluated and compared by
\* value; the first matching pair's result is evaluated and returned, nothing
\* after it is evaluated, and with no matching pair the value is Null.
C13_Match ==
    (Bound(last.pre, "s") /\ last.input # <<>>) =>
        /\ \A v \in 1..MaxN : last.input = <<MatchOn(v)>> =>
              CASE v = 1 -> Matched(StrV("one"), 123)
                [] v = 2 -> Matched(StrV("two"), 1245)
                [] OTHER -> Matched(None, 1246)
        /\ \A v \in 1..MaxN : last.input = <<MatchWild(v)>> =>
              IF v = 1 THEN Matched(StrV("one"), 123) ELSE Matched(StrV("other"), 125)
        /\ last.input = <<MatchData>> => Matched(StrV("yes"), 1245)

C13_Witness ==
    /\ Bound(last.pre, "s") /\ Global(last.pre, "s") = IntV(1)
    /\ last.input = <<MatchOn(2)>>
    /\ Matched(StrV("two"), 1245)
\* ---- C14: truthiness ----
\* C14: the falsy values are exactly Null, false, integer 0, "", [] and {};
\* every other value, floats included, is truthy; if takes the then-branch
\* exactly for truthy conditions and yields Null for a falsy condition when
\* there is no else branch.
C14_Truthiness ==
    \A i \in 1..Len(Conds) :
        /\ last.input = <<If(Conds[i])>> =>
              last.ok /\ last.v = IF i \in 1..6 THEN IntV(2) ELSE IntV(1)
        /\ last.input = <<IfNoElse(Conds[i])>> =>
              last.ok /\ last.v = IF i \in 1..6 THEN None ELSE IntV(1)

\* The float 0.0 as condition takes the else branch.
C14_Witness ==
    /\ last.input = <<If(n_float(0, L0))>>
    /\ last.ok /\ last.v = IntV(2)

\* The table as the code has it: the float 0.0 is falsy as well.
C14_TruthinessOfCode ==
    \A i \in 1..Len(Conds) :
        /\ last.input = <<If(Conds[i])>> =>
              last.ok /\ last.v = IF i \in 1..7 THEN IntV(2) ELSE IntV(1)
        /\ last.input = <<IfNoElse(Conds[i])>> =>
              last.ok /\ last.v = IF i \in 1..7 THEN None ELSE IntV(1)
\* ---- C15: the inbox is FIFO ----
\* The heap cells, and per cell the messages appended to and popped from its
\* inbox so far, in the order it happened.
IsCell(st, i) == HasType(<<"DICT", i>>, "cell", st)

Appended(st, i) ==
    LET es == SelectSeq(st.log, LAMBDA e : e[1] = "append" /\ e[2] = i)
    IN  [k \in 1..Len(es) |-> es[k][3]]

Popped(st, i) ==
    LET es == SelectSeq(st.log, LAMBDA e : e[1] = "pop" /\ e[2] = i)
    IN  [k \in 1..Len(es) |-> es[k][3]]

Inbox(st, i) == DictGet(st.heap[i], StrV("inbox"))[2]

\* C15: the k-th recv that returns a message returns the k-th message ever
\* appended to the cell's inbox and removes exactly it; recv on an empty inbox
\* returns Null and changes nothing; the inbox holds the messages appended and
\* not yet received.
C15_InboxFifo ==
    /\ \A i \in 1..Len(store.heap) : IsCell(store, i) =>
          LET a == Appended(store, i)
              p == Popped(store, i)
          IN  /\ Len(p) <= Len(a)
              /\ p = SubSeq(a, 1, Len(p))
              /\ Inbox(store, i) = SubSeq(a, Len(p) + 1, Len(a))
              /\ Len(Inbox(store, i)) = Len(a) - Len(p)
    /\ \A n \in {"c", "d"} : (last.input = <<Recv(n)>> /\ Bound(last.pre, n)) =>
          LET i == Global(last.pre, n)[2] IN
          IF Inbox(last.pre, i) = <<>>
          THEN last.ok /\ last.v = None /\ store = last.pre
          ELSE /\ last.ok /\ last.v = Appended(last.pre, i)[Len(Popped(last.pre, i)) + 1]
               /\ Inbox(store, i) = Tail(Inbox(last.pre, i))
               /\ store.log = Append(last.pre.log, <<"pop", i, last.v>>)
               /\ store.heap = [last.pre.heap EXCEPT ![i] = store.heap[i]]

\* Two messages are waiting in c's inbox, sent by d and by c; two recv in a row
\* return them in the order they were appended, the second one last.
C15_Witness ==
    /\ last.input = <<Recv("c"), Recv("c")>> /\ Bound(last.pre, "c")
    /\ LET i == Global(last.pre, "c")[2] IN
          /\ Len(Inbox(last.pre, i)) = 2
          /\ DictGet(Heap(store, Inbox(last.pre, i)[1]), StrV("content")) = IntV(2)
          /\ DictGet(Heap(store, Inbox(last.pre, i)[2]), StrV("content")) = IntV(1)
          /\ Popped(store, i) = Inbox(last.pre, i)
          /\ last.v = Appended(store, i)[2]
          /\ Inbox(store, i) = <<>>
\* ---- C16: emit ----
\* The heap objects that were cells before the input.
CellsBefore == {i \in 1..Len(last.pre.heap) : IsCell(last.pre, i)}

\* The input returned v after appending one new message {from, content} to the
\* inbox of the cell bound to `to`, with every other cell as it was.
Delivered(from, to, v) ==
    LET t == Global(last.pre, to)[2]
        m == <<"DICT", Len(last.pre.heap) + 1>>
    IN  /\ last.ok /\ last.v = IntV(v)
        /\ Len(store.heap) = Len(last.pre.heap) + 1
        /\ Heap(store, m) = << <<StrV("from"), DictGet(Heap(last.pre, Global(last.pre, from)), StrV("id"))>>,
                               <<StrV("content"), IntV(v)>> >>
        /\ Inbox(store, t) = Append(Inbox(last.pre, t), m)
        /\ \A i \in CellsBefore \ {t} : store.heap[i] = last.pre.heap[i]

\* The input returned v and every cell is as it was.
Dropped(v) ==
    /\ last.ok /\ last.v = IntV(v)
    /\ \A i \in CellsBefore : store.heap[i] = last.pre.heap[i]
    /\ store.log = last.pre.log

\* C16: emit returns content; a Cell target gets exactly one message {from: id
\* of the from-cell, content} at the end of its inbox and no other cell's inbox
\* changes, not even that of a cell with the same id; with a target that is no
\* Cell, and in the :broadcast form, no inbox changes.
C16_Emit ==
    (Bound(last.pre, "c") /\ Bound(last.pre, "d") /\ Bound(last.pre, "f")) =>
        /\ \A v \in 1..MaxN :
              /\ last.input = <<Emit("c", "d", v)>> => Delivered("c", "d", v)
              /\ last.input = <<EmitTarget("f", "c", v)>> => Delivered("f", "c", v)
              /\ last.input = <<EmitBroadcast("c", v)>> => Dropped(v)
        /\ \A i \in 1..Len(NonCells) :
              /\ last.input = <<EmitNode("c", NonCells[i], i)>> => Dropped(i)
              /\ last.input = <<EmitTargetNode("d", NonCells[i], i)>> => Dropped(i)

\* c and d are two cells with one id; the message for d reaches d alone.
C16_Witness ==
    /\ Bound(last.pre, "c") /\ Bound(last.pre, "d")
    /\ last.input = <<Emit("c", "d", 1)>>
    /\ Global(last.pre, "c") # Global(last.pre, "d")
    /\ DictGet(Heap(last.pre, Global(last.pre, "c")), StrV("id"))
         = DictGet(Heap(last.pre, Global(last.pre, "d")), StrV("id"))
    /\ Len(Inbox(last.pre, Global(last.pre, "d")[2])) = 1
    /\ Delivered("c", "d", 1)
\* ---- C17: compress takes the most frequent value ----
\* The value of a literal, how often it occurs in a list under value
\* equality, and the first value of the list that occurs most often.
LitVal(n) == <<n[1], n[2]>>

Occurs(vals, v) == Cardinality({i \in 1..Len(vals) : PyEq(vals[i], v)})

MostFrequent(vals) ==
    LET best == CHOOSE i \in 1..Len(vals) :
                    /\ \A j \in 1..Len(vals) : Occurs(vals, vals[j]) <= Occurs(vals, vals[i])
                    /\ \A j \in 1..(i - 1) : Occurs(vals, vals[j]) < Occurs(vals, vals[i])
    IN  vals[best]

\* The x of the packet under "ok" in the value the input returned.
CompressedX ==
    LET ok == DictGet(Freeze(last.v, store)[2], StrV("ok"))
        data == DictGet(ok[2], StrV("data"))
    IN  DictGet(data[2], StrV("x"))

\* C17: compress maps a grouped key to the value that occurs most often in its
\* list under value equality, the first such value on a tie, also when 1 and
\* "1" are mixed.
C17_CompressMostFrequent ==
    \A k \in 1..9 : last.input = CompressInputs[k] =>
        /\ last.ok
        /\ CompressedX = MostFrequent([i \in 1..3 |-> LitVal(XTriple(k)[i])])

\* x is 1, "1", "1" in the three cells and the packet's x is the integer 1.
C17_Witness ==
    /\ last.input = CompressOf(I(1), Str("1"), Str("1"))
    /\ last.ok
    /\ CompressedX = IntV(1)
\* ---- C18: the packet table only grows ----
\* The packet stored under the i-th hash of the table of st.
Stored(st, i) == Heap(st, st.packets[i][2])

\* C18: every hash ever stored stays in the table and ref of it returns a
\* packet whose hash field is that hash; ref of a hash never stored returns
\* Null and leaves the table as it was.
C18_PacketTableGrows ==
    /\ \A i \in 1..Len(last.pre.packets) : DictHas(store.packets, last.pre.packets[i][1])
    /\ \A i \in 1..Len(store.packets) : DictGet(Stored(store, i), StrV("hash")) = store.packets[i][1]
    /\ (last.input = <<RefLit("h1")>> /\ DictHas(last.pre.packets, StrV("h1"))) =>
          /\ last.ok /\ last.v = DictGet(last.pre.packets, StrV("h1"))
          /\ DictGet(Heap(store, last.v), StrV("hash")) = StrV("h1")
          /\ store = last.pre
    /\ last.input = <<RefLit("none")>> => last.ok /\ last.v = None /\ store = last.pre

\* p is the state of cell c; after (set-state c :hash 5) the packet that ref
\* returns for p's hash has 5 as its hash field.
C18_Witness ==
    /\ last.input = <<RefLit("h1")>>
    /\ Bound(store, "p") /\ last.ok /\ last.v = Global(store, "p")
    /\ DictHas(store.packets, StrV("h1"))
    /\ DictGet(Heap(store, last.v), StrV("hash")) = IntV(5)

\* ---- C19: a stored packet is an immutable snapshot ----
\* The data of a packet, written out by value.
DataOf(st, packet) == Freeze(DictGet(Heap(st, packet), StrV("data")), st)

\* C19: the data of a stored packet never changes, so the hash of every entry
\* of the packet table is the content hash of the entry's current data.
C19_PacketImmutable ==
    /\ \A i \in 1..Len(last.pre.packets) :
          LET packet == last.pre.packets[i][2] IN DataOf(store, packet) = DataOf(last.pre, packet)
    /\ \A i \in 1..Len(store.packets) :
          store.packets[i][1]
            = StrV(content_hash(DictGet(Stored(store, i), StrV("data")), store).v)

\* q's data is the state of cell k; (set-state k :x 2) turns the stored x from
\* 1 into 2 under the same hash.
C19_Witness ==
    /\ last.input = <<SetState("k", "x", 2)>>
    /\ Bound(last.pre, "q") /\ last.ok
    /\ \E i \in 1..Len(store.packets) :
          /\ store.packets[i] = <<DictGet(Heap(store, Global(store, "q")), StrV("hash")), Global(store, "q")>>
          /\ store.packets[i] \in {last.pre.packets[j] : j \in 1..Len(last.pre.packets)}
    /\ DataOf(last.pre, Global(store, "q")) = <<"MAP", << <<StrV("x"), IntV(1)>> >> >>
    /\ DataOf(store, Global(store, "q")) = <<"MAP", << <<StrV("x"), IntV(2)>> >> >>
\* ---- C20: merge ----
StateKeys == {StrV("x"), StrV("y"), StrV("z")}

KeysOf(ks) == {StrV(ks[i][2]) : i \in 1..Len(ks)}

\* The values held under k by the cells among the members, in member order,
\* read from the store before the input.
RECURSIVE ValuesOf(_, _)
ValuesOf(ms, k) ==
    IF ms = <<>> THEN <<>>
    ELSE LET m == Head(ms)
             state == Heap(last.pre, DictGet(Heap(last.pre, Global(last.pre, m[2])), StrV("state")))
         IN  (IF m[1] = "SYM" /\ DictHas(state, k) THEN <<DictGet(state, k)>> ELSE <<>>)
             \o ValuesOf(Tail(ms), k)

\* The input returned a collective whose shared map has exactly the keys of
\* `keys` that a member holds, each with its list of values, and whose cells
\* field lists the members; nothing that existed before has changed.
Merged(ms, keys) ==
    /\ last.ok /\ last.v[1] = "DICT"
    /\ DictGet(Heap(store, last.v), StrV("__type__")) = StrV("collective")
    /\ LET shared == Heap(store, DictGet(Heap(store, last.v), StrV("shared"))) IN
          /\ \A k \in StateKeys :
                IF k \in keys /\ ValuesOf(ms, k) # <<>>
                THEN DictHas(shared, k) /\ DictGet(shared, k) = <<"LIST", ValuesOf(ms, k)>>
                ELSE ~DictHas(shared, k)
          /\ \A i \in 1..Len(shared) : shared[i][1] \in StateKeys
    /\ SubSeq(store.heap, 1, Len(last.pre.heap)) = last.pre.heap
    /\ store.log = last.pre.log

MergeCase == Bound(last.pre, "a") /\ Bound(last.pre, "b") /\ Bound(last.pre, "c")

\* C20 as the code has it: merge groups, per state key held by a member cell,
\* the values in member order; the keys are restricted to the list given in
\* third place, after :on; a list given in second place restricts nothing;
\* elements that are no cells add nothing and no cell changes.
C20_MergeOn ==
    MergeCase =>
        \A i \in 1..Len(Members) :
            /\ last.input = <<MergeOf(Members[i])>> => Merged(Members[i], StateKeys)
            /\ \A j \in 1..Len(KeyLists) :
                  /\ last.input = <<MergeOn(Members[i], KeyLists[j])>> =>
                        Merged(Members[i], KeysOf(KeyLists[j]))
                  /\ last.input = <<MergeKeys(Members[i], KeyLists[j])>> =>
                        Merged(Members[i], StateKeys)

\* Three members, one of them the number 7, merged on :x.
C20_Witness ==
    /\ MergeCase
    /\ last.input = <<MergeOn(Members[3], KeyLists[1])>>
    /\ Merged(Members[3], {StrV("x")})
    /\ Freeze(DictGet(Heap(store, last.v), StrV("shared")), store)
         = <<"MAP", << <<StrV("x"), <<"LIST", <<IntV(5), IntV(1)>>>>>> >> >>

\* C20: merge groups, per state key held by a member cell, the values in
\* member order, only for the keys of the key set when one is supplied as the
\* second operand; elements that are no cells add nothing and no cell changes.
C20_MergeSecondOperand ==
    MergeCase =>
        \A i \in 1..Len(Members) :
            /\ last.input = <<MergeOf(Members[i])>> => Merged(Members[i], StateKeys)
            /\ \A j \in 1..Len(KeyLists) :
                  last.input = <<MergeKeys(Members[i], KeyLists[j])>> =>
                      Merged(Members[i], KeysOf(KeyLists[j]))

\* ---- C21: circular module import ----
\* C21: with module file a.ht importing b.ht and b.ht importing a.ht, the
\* program (use "a.ht") from-a terminates without failure and from-a, the
\* binding a.ht makes itself, is visible afterwards.
C21_CircularUse ==
    last.input = UseFileA =>
        /\ last.ok /\ last.v = IntV(1)
        /\ Bound(store, "from-a") /\ Global(store, "from-a") = IntV(1)

\* The import fails on the path, looked up as a name, and binds nothing.
C21_Witness ==
    /\ last.input = UseFileA
    /\ ~last.ok /\ last.v.exc = "NameError" /\ last.v.arg = "a.ht"
    /\ ~Bound(store, "from-a")
    /\ store = last.pre

\* The bindings the body of ModM makes, and the ones a module keeps.
ModMBody == << XIs(1), <<StrV("_h"), IntV(2)>>, <<StrV("y"), IntV(3)>> >>

ModMPublic == << XIs(1), <<StrV("y"), IntV(3)>> >>

\* Every entry of the dict d is bound in frame env of the store to d's value.
AllBoundIn(d, env) ==
    \A i \in 1..Len(d) :
        /\ DictHas(Env(store, env), d[i][1])
        /\ DictGet(Env(store, env), d[i][1]) = d[i][2]

\* C22: (mod m body...) evaluates the body in one fresh child frame, which
\* then holds every binding of the body; of the frames that existed before
\* only the enclosing one changes, and only in the binding m, whose value is a
\* new Map of the fresh frame's bindings without the underscore names.  So a
\* body name is bound outside exactly if it was before.  (use m) then binds
\* every entry of the Map in the current frame: the global frame at top
\* level, the let frame inside a let, where the global frame stays as it was.
C22_ModFrame ==
    /\ last.input = <<ModM>> =>
          /\ last.ok
          /\ OneNewFrame(ModMBody)
          /\ SubSeq(store.frames, 2, Len(last.pre.frames)) = Tail(last.pre.frames)
          /\ Env(store, 1) =
                DictSet(Env(last.pre, 1), StrV("m"), <<"DICT", Len(store.heap)>>)
          /\ store.heap = Append(last.pre.heap, ModMPublic)
          /\ \A n \in {"x", "_h", "y"} : Bound(store, n) <=> Bound(last.pre, n)
    /\ (last.input = <<Use("m", <<>>)>> /\ last.ok) =>
          /\ Heap(last.pre, Global(last.pre, "m")) = ModMPublic
          /\ AllBoundIn(ModMPublic, 1)
          /\ ~Bound(last.pre, "_h") => ~Bound(store, "_h")
          /\ Len(store.frames) = Len(last.pre.frames)
    /\ (last.input = <<LetUse>> /\ last.ok) =>
          /\ OldFramesUnchanged
          /\ OneNewFrame(<< <<StrV("a"), IntV(1)>> >> \o ModMPublic)
          /\ last.v = IntV(4)

\* (mod m ...) ran in a store where x was not bound, and (use m) then bound
\* x and y in the global frame.
C22_Witness ==
    /\ last.input = <<Use("m", <<>>)>> /\ last.ok
    /\ ~Bound(last.pre, "x") /\ ~Bound(last.pre, "y")
    /\ Bound(last.pre, "m")
    /\ Len(last.pre.frames) = 2 /\ Env(last.pre, 2) = ModMBody
    /\ Global(store, "x") = IntV(1) /\ Global(store, "y") = IntV(3)

\* The global frame of the store before the last input with the first k of
\* the names bound, in order, to the values the module dict d holds for them.
RECURSIVE BindFirst(_, _, _)
BindFirst(names, k, d) ==
    IF k = 0 THEN Env(last.pre, 1)
    ELSE DictSet(BindFirst(names, k - 1, d), StrV(names[k]), DictGet(d, StrV(names[k])))

\* The position of the first of the names that the dict d lacks; Len + 1 if
\* it has them all.
FirstAbsent(names, d) ==
    IF \A i \in 1..Len(names) : DictHas(d, StrV(names[i])) THEN Len(names) + 1
    ELSE CHOOSE j \in 1..Len(names) :
            /\ ~DictHas(d, StrV(names[j]))
            /\ \A i \in 1..(j - 1) : DictHas(d, StrV(names[i]))

UseLists == {<<"y">>, <<"y", "x">>, <<"x", "nosuch", "y">>, <<"nosuch", "x">>, <<"y", "_h">>}

\* C30: selective use copies the names in order and is not atomic.  With nj
\* the first name the module lacks, (use m n1 ... nk) fails with the
\* missing-name error for nj, and the current frame is the one before with
\* n1..n(j-1) bound to the module's values and nothing else changed; with
\* every name present it succeeds and exactly n1..nk are bound.
C30_SelectiveUse ==
    \A ns \in UseLists :
        (last.input = <<Use("m", ns)>> /\ Bound(last.pre, "m")) =>
            LET d == Heap(last.pre, Global(last.pre, "m"))
                j == FirstAbsent(ns, d)
            IN  /\ last.ok <=> j = Len(ns) + 1
                /\ ~last.ok => /\ last.v.exc = "RuntimeError"
                               /\ last.v.arg = ns[j] \o " not found in module m"
                /\ Env(store, 1) = BindFirst(ns, j - 1, d)
                /\ Len(store.frames) = Len(last.pre.frames)
                /\ SubSeq(store.frames, 2, Len(store.frames)) = Tail(last.pre.frames)
                /\ store.heap = last.pre.heap

\* (use m x nosuch y) failed on nosuch in a store that bound neither x nor y:
\* x is bound now, y is not.
C30_Witness ==
    /\ last.input = <<Use("m", <<"x", "nosuch", "y">>)>>
    /\ Bound(last.pre, "m") /\ ~Bound(last.pre, "x") /\ ~Bound(last.pre, "y")
    /\ ~last.ok /\ last.v.arg = "nosuch not found in module m"
    /\ Bound(store, "x") /\ Global(store, "x") = IntV(1)
    /\ ~Bound(store, "y")

\* The value v of the store is a Map: a dict that is no Cell, Collective,
\* Packet or Intent.
IsPlainMap(v, st) == IsDict(v) /\ ~DictHas(Heap(st, v), StrV("__type__"))

RuntimeKinds == {"cell", "collective", "packet", "intent"}

\* C23: use on a name bound to a value that is not a Map (an Int, Str, List
\* or Closure, or a Cell, Collective, Packet or Intent) fails with the
\* not-a-module error and leaves every frame as it was.
C23_NotAModule ==
    (last.input = <<UseV>> /\ Bound(last.pre, "v")
        /\ ~IsPlainMap(Global(last.pre, "v"), last.pre)) =>
            /\ ~last.ok
            /\ last.v.exc = "RuntimeError" /\ last.v.arg = "v is not a module"
            /\ store.frames = last.pre.frames

\* (use v) on a Cell, Collective, Packet or Intent succeeded and bound the
\* object's own fields, __type__ among them, in the global frame.
C23_Witness ==
    /\ last.input = <<UseV>> /\ Bound(last.pre, "v")
    /\ \E k \in RuntimeKinds : HasType(Global(last.pre, "v"), k, last.pre)
    /\ last.ok
    /\ ~Bound(last.pre, "__type__") /\ Bound(store, "__type__")
    /\ Global(store, "__type__") = DictGet(Heap(store, Global(store, "v")), StrV("__type__"))

\* use on an Int, Str, List or Closure fails with the not-a-module error and
\* leaves every frame as it was.
C23_NonDictRejected ==
    (last.input = <<UseV>> /\ Bound(last.pre, "v") /\ ~IsDict(Global(last.pre, "v"))) =>
        /\ ~last.ok
        /\ last.v.exc = "RuntimeError" /\ last.v.arg = "v is not a module"
        /\ store.frames = last.pre.frames

\* The last step was parse alone, on one of the token sequences.
ParsedOnly == "pos" \in DOMAIN last

Openers == {"LPAREN", "LBRACK", "LBRACE"}

Closers == {"RPAREN", "RBRACK", "RBRACE"}

Markers == {"QUOTE", "UNQUOTE", "SPLICE"}

CloserOf(tt) == CASE tt = "LPAREN" -> "RPAREN" [] tt = "LBRACK" -> "RBRACK" [] tt = "LBRACE" -> "RBRACE"

\* A left-to-right scan with the stack of closers still owed and a flag for
\* a quote, unquote or splice marker still waiting for its expression.  It
\* gives the position of the first token that cannot stand where it is, with
\* the message for it, or position 0 if there is none.
RECURSIVE Scan(_, _, _, _)
Scan(tokens, pos, stack, pending) ==
    LET tt == tokens[pos][1]
        unexpected == [pos |-> pos, msg |-> "Unexpected token " \o TokText(tokens, pos)]
    IN  IF tt = "EOF" THEN
            IF pending THEN unexpected
            ELSE IF stack # <<>>
            THEN [pos |-> pos, msg |-> "Expected " \o Head(stack) \o ", got EOF"]
            ELSE [pos |-> 0, msg |-> ""]
        ELSE IF tt \in Closers THEN
            IF pending \/ stack = <<>> \/ Head(stack) # tt THEN unexpected
            ELSE Scan(tokens, pos + 1, Tail(stack), FALSE)
        ELSE IF tt \in Openers THEN Scan(tokens, pos + 1, <<CloserOf(tt)>> \o stack, FALSE)
        ELSE Scan(tokens, pos + 1, stack, tt \in Markers)

\* The tokens a node was parsed from, in order; a closing delimiter's
\* position is not kept in the node and is written as 0, 0.
CloseTok(tt) ==
    CASE tt = "SEXPR" -> <<"RPAREN", ")", 0, 0>> [] tt = "LIST" -> <<"RBRACK", "]", 0, 0>>
      [] tt = "MAP" -> <<"RBRACE", "}", 0, 0>>

OpenTok(tt, loc) ==
    CASE tt = "SEXPR" -> <<"LPAREN", "(", loc[1], loc[2]>>
      [] tt = "LIST" -> <<"LBRACK", "[", loc[1], loc[2]>>
      [] tt = "MAP" -> <<"LBRACE", "{", loc[1], loc[2]>>
      [] tt = "QUOTE" -> <<"QUOTE", "'", loc[1], loc[2]>>
      [] tt = "UNQUOTE" -> <<"UNQUOTE", "~", loc[1], loc[2]>>
      [] tt = "SPLICE" -> <<"SPLICE", "~@", loc[1], loc[2]>>

RECURSIVE TokensOf(_)
RECURSIVE TokensOfAll(_)
TokensOfAll(nodes) ==
    IF nodes = <<>> THEN <<>> ELSE TokensOf(Head(nodes)) \o TokensOfAll(Tail(nodes))

TokensOf(node) ==
    LET tt == node[1] IN
    CASE tt \in {"SEXPR", "LIST", "MAP"} ->
            <<OpenTok(tt, node[3])>> \o TokensOfAll(node[2]) \o <<CloseTok(tt)>>
      [] tt \in Markers -> <<OpenTok(tt, node[3])>> \o TokensOf(node[2])
      [] tt = "SYM" /\ node[2] = "|>" -> << <<"PIPE", "|>", node[3][1], node[3][2]>> >>
      [] OTHER -> << <<tt, node[2], node[3][1], node[3][2]>> >>

Blank(tok) == IF tok[1] \in Closers THEN <<tok[1], tok[2], 0, 0>> ELSE tok

\* C24: on a token sequence closed by the end-of-input token parse either
\* returns the top-level nodes in source order, stopped at the end-of-input
\* token with every token before it consumed, or fails with a SyntaxError
\* carrying the line and column of the offending token.  It fails exactly
\* when the scan finds an opener without its closer before the end of input
\* (Expected ..., got EOF) or a token where no expression can start: a bare or
\* mismatched closer, or the end of input right after a quote, unquote or
\* splice marker (Unexpected token ...).  It never reads past the last token.
C24_ParseTotal ==
    ParsedOnly =>
        LET tokens == last.input
            s == Scan(tokens, 1, <<>>, FALSE)
        IN  /\ last.ok <=> s.pos = 0
            /\ last.ok =>
                  /\ last.pos = Len(tokens)
                  /\ TokensOfAll(last.v) = [i \in 1..(Len(tokens) - 1) |-> Blank(tokens[i])]
            /\ ~last.ok =>
                  /\ last.v.exc = "SyntaxError"
                  /\ last.v.loc = <<tokens[s.pos][3], tokens[s.pos][4]>>
                  /\ last.v.arg = s.msg

\* ( [ 1 ] failed at the end of input with the closer ) still owed.
C24_Witness ==
    /\ ParsedOnly
    /\ last.input = Toks(<< <<"LPAREN", "(">>, <<"LBRACK", "[">>, <<"INT", 1>>, <<"RBRACK", "]">> >>)
    /\ ~last.ok /\ last.v.exc = "SyntaxError"
    /\ last.v.arg = "Expected RPAREN, got EOF" /\ last.v.loc = <<1, 5>>

\* The node and every node inside it.
RECURSIVE SubNodes(_)
SubNodes(node) ==
    {node} \cup
    (IF node[1] \in {"SEXPR", "LIST", "MAP"}
     THEN UNION {SubNodes(node[2][i]) : i \in 1..Len(node[2])}
     ELSE IF node[1] \in Markers THEN SubNodes(node[2]) ELSE {})

MapLits(nodes) ==
    {n \in UNION {SubNodes(nodes[i]) : i \in 1..Len(nodes)} : n[1] = "MAP"}

\* C25: every MapLit node parse returns, at any depth, has an even number
\* of elements, so evaluating it evaluates every element: the (def z 5)
\* written as an element of a map literal binds z.
C25_MapLitEven ==
    /\ (ParsedOnly /\ last.ok) => \A n \in MapLits(last.v) : Len(n[2]) % 2 = 0
    /\ (~ParsedOnly /\ last.input # <<>>) =>
          /\ parse(last.input).ok
          /\ \A n \in MapLits(parse(last.input).v) : Len(n[2]) % 2 = 0
    /\ last.input \in {MapOddDef, MapEvenDef} => last.ok /\ Bound(store, "z")

\* {:a 1 (def z 5)} parsed to a MapLit of three elements and evaluated to the
\* map of a alone: the third element was never evaluated, z is not bound.
C25_Witness ==
    /\ last.input = MapOddDef
    /\ Len(parse(last.input).v[1][2]) = 3
    /\ last.ok /\ Freeze(last.v, store) = <<"MAP", << <<StrV("a"), IntV(1)>> >> >>
    /\ ~Bound(store, "z")

\* With an even number of elements every element is evaluated.
C25_EvenEvaluated ==
    last.input = MapEvenDef =>
        /\ last.ok /\ Freeze(last.v, store) = <<"MAP", << <<StrV("a"), IntV(5)>> >> >>
        /\ Bound(store, "z") /\ Global(store, "z") = IntV(5)

\* The positional parameters of a parameter list: the names before the
\* rest-marker.
Positional(params) ==
    IF \E i \in 1..Len(params) : params[i] = "&"
    THEN SubSeq(params, 1, (CHOOSE i \in 1..Len(params) : params[i] = "&") - 1)
    ELSE params

\* The bindings the application makes, in parameter order: positional
\* parameter i gets argument i, or Null if there is none; the rest name gets
\* the list of the arguments after the positional ones.
ArityBindings(params, args) ==
    LET pos == Positional(params)
        p == Len(pos)
    IN  [i \in 1..p |-> <<StrV(pos[i]), IF i <= Len(args) THEN args[i] ELSE None>>]
        \o (IF p < Len(params)
            THEN << <<StrV(params[p + 2]),
                      <<"LIST", [j \in 1..(IF Len(args) > p THEN Len(args) - p ELSE 0) |-> args[p + j]]>>>> >>
            ELSE <<>>)

\* C26: applying a closure never fails on the number of arguments.  With p
\* positional parameters and a arguments the new frame binds parameter i to
\* argument i for i <= min(p, a) and to Null beyond; without a rest-marker
\* the arguments beyond p are ignored; a name after the rest-marker & is
\* bound to the list of the arguments from the marker's position on, empty
\* when none remain.  The body sees these bindings.
C26_BindParams ==
    \A k \in 1..Len(ParamLists) : \A n \in ArgCounts :
        last.input = <<CallFn(ParamLists[k], n)>> =>
            LET d == ArityBindings(ParamLists[k], [i \in 1..n |-> IntV(i)])
            IN  /\ last.ok
                /\ OldFramesUnchanged
                /\ OneNewFrame(d)
                /\ last.v = <<"LIST", [i \in 1..Len(d) |-> d[i][2]]>>

\* ((fn [a b & r] [a b r]) 1): a is 1, b is Null, r is the empty list.
C26_Witness ==
    /\ last.input = <<CallFn(<<"a", "b", "&", "r">>, 1)>>
    /\ last.ok
    /\ last.v = <<"LIST", <<IntV(1), None, <<"LIST", <<>>>>>>>>
    /\ OneNewFrame(<< <<StrV("a"), IntV(1)>>, <<StrV("b"), None>>, <<StrV("r"), <<"LIST", <<>>>>>> >>)

\* The numbers reported to a cell's inbox during the last input, in order.
Trace ==
    LET es == SubSeq(store.log, Len(last.pre.log) + 1, Len(store.log))
    IN  [k \in 1..Len(es) |-> DictGet(Heap(store, es[k][3]), StrV("content"))]

Ints(ns) == [i \in 1..Len(ns) |-> IntV(ns[i])]

IsOrder(i, ok, trace) ==
    last.input = OrderInputs[i] => (last.ok <=> ok) /\ Trace = Ints(trace)

\* C27: in a call form whose head is no special-form name the head is
\* evaluated first, then every argument once from left to right, then the
\* callee is applied; when the head or an argument fails nothing after it is
\* evaluated and the callee is not applied.  The elements of a list literal
\* and of a map literal are evaluated from left to right, and a failing
\* element ends the evaluation.
C27_EvalOrder ==
    /\ IsOrder(1, TRUE, <<1, 2, 3, 4>>) /\ (last.input = OrderInputs[1] => last.v = IntV(30))
    /\ IsOrder(2, FALSE, <<1>>)
    /\ IsOrder(3, FALSE, <<1, 2>>)
    /\ IsOrder(4, FALSE, <<1, 2, 3>>)
    /\ IsOrder(5, FALSE, <<1, 2, 3>>)
    /\ IsOrder(6, TRUE, <<1, 2>>) /\ (last.input = OrderInputs[6] => last.v = IntV(3))
    /\ IsOrder(7, TRUE, <<1, 2, 3>>)
    /\ IsOrder(8, FALSE, <<1, 2>>)
    /\ IsOrder(9, TRUE, <<1, 2, 3, 4>>)
    /\ IsOrder(10, FALSE, <<1, 2, 3>>)
    /\ IsOrder(11, TRUE, <<1, 2>>)

\* The call with a failing second argument: head, first and second argument
\* were evaluated in this order and the callee's body never ran.
C27_Witness ==
    /\ last.input = OrderInputs[4]
    /\ ~last.ok /\ last.v.exc = "NameError"
    /\ Trace = Ints(<<1, 2, 3>>)

\* C28: a special-form name cannot be shadowed in head position.  For every
\* name of the table a call form with that bare symbol as head goes to the
\* special-form handler, whether def, let or a closure parameter has bound the
\* name to a closure, in a local frame or in the global one; the closure is
\* reached only through the symbol outside head position.
C28_NoShadowing ==
    \A g \in 1..(Len(SpecialNames) \div 5) :
        last.input = <<Group(g)>> =>
            /\ last.ok
            /\ last.v = <<"LIST", [k \in 1..Len(NamesOfGroup(g)) |->
                   LET e == ValueOf(NamesOfGroup(g)[k])
                   IN  <<"LIST", <<e, e, e, IntV(99)>>>>]>>

\* With if bound to a closure in the global frame as well, (if F nosuch 2)
\* still gave 2 in all three bindings, and ((do if) 1) reached the closure.
C28_Witness ==
    /\ last.input = <<Group(1)>>
    /\ Bound(last.pre, "if") /\ Global(last.pre, "if")[1] = "FN"
    /\ last.ok
    /\ last.v[2][4] = <<"LIST", <<IntV(2), IntV(2), IntV(2), IntV(99)>>>>

\* The values the recur of each input carries, evaluated in the first
\* iteration, where x = 1, y = 2 and k = 1.
RecurValues ==
    << <<>>, <<10>>, <<10, 20>>, <<10, 20, 30>>, <<10, 20, 30, 40>>, <<2, 1>> >>

\* The values of the loop names after a recur with vals: name i takes value
\* i if there is one and keeps its previous value otherwise.
Rebind(prev, vals) == [i \in 1..Len(prev) |-> IF i <= Len(vals) THEN vals[i] ELSE prev[i]]

\* C29: recur rebinds the loop names by position without a test of the
\* count.  In the loop over x, y, k a recur with m values sets the first
\* min(m, 3) names in the loop frame, leaves the others at the values of the
\* iteration before, ignores a fourth value, and the body runs again; the
\* values are all evaluated before any name is rebound, so (recur y x)
\* swaps x and y.
C29_RecurRebinds ==
    \A i \in 1..Len(RecurArgs) :
        last.input = <<RecurLoop(RecurArgs[i])>> =>
            LET b == Rebind(<<1, 2, 1>>, RecurValues[i])
                fin == Ints(<<b[1], b[2], b[3] + 1>>)
            IN  /\ last.ok /\ last.v = <<"LIST", fin>>
                /\ OldFramesUnchanged
                /\ OneNewFrame(<< <<StrV("x"), fin[1]>>, <<StrV("y"), fin[2]>>,
                                  <<StrV("k"), fin[3]>> >>)
                /\ Len(store.iters) = 2

\* (recur 10) in the loop over x, y, k: x is 10, y kept 2, the body ran twice.
C29_Witness ==
    /\ last.input = <<RecurLoop(<<I(10)>>)>>
    /\ last.ok /\ last.v = <<"LIST", Ints(<<10, 2, 2>>)>>
    /\ Len(store.iters) = 2
====
